---- MODULE Spec2Model ----
(***************************************************************************)
(* Model of the timetable import of my-class-focus: ExcelParser            *)
(* (src/utils/excelParser.ts).  JavaScript strings are modelled as         *)
(* sequences of one-character strings, so that the regular expressions,    *)
(* trim, split, replace and padStart of the source are computed and not    *)
(* assumed.                                                                *)
(***************************************************************************)
EXTENDS Integers, Sequences, FiniteSets, TLC

VARIABLES
    timeStr,        \* normalizeTime: the argument
    timeResult,     \* normalizeTime: the returned value, NotRun before the call
    line,           \* parseSessionLine: the argument
    lineResult,     \* parseSessionLine: the returned value, NotRunLine before
    workbook,       \* parseExcelFile: the decoded workbook
    pc,             \* parseExcelFile: where the call stands
    sheetIdx,       \* findTimetableSheet: the sheet the loop is at
    sheetName,      \* parseExcelFile: the name findTimetableSheet returned
    header,         \* parseWorksheet: headerRow, timeCol, dayCols
    dataRow,        \* parseWorksheet: the data row the loop is at
    dayIdx,         \* parseWorksheet: the entry of dayCols the loop is at, 0
                    \* before the time cell of the row is read
    rowTime,        \* parseWorksheet: timeStr of the row
    timeslots,      \* parseWorksheet: timeslots
    sessions,       \* parseWorksheet: sessions
    unparsedCells,  \* parseWorksheet: unparsedCells
    uuidCalls,      \* the number of identifiers uuidv4 has handed out
    faults,         \* the number of failures the environment has injected
    visits,         \* history: one record per call of parseSessionCell
    outcome,        \* parseExcelFile: the ImportPreview returned or the Error
                    \* thrown, Pending while the call runs
    confArgs,       \* calculateLineConfidence, calculateConfidence: the arguments
    confResult,     \* the returned level, NotScored before the call
    suspended,      \* the locals of a second call of parseExcelFile while the
                    \* first runs, NoCall when there is one call only
    stored,         \* AsyncStorage: the TimetableData under STORAGE_KEY, NoData
                    \* when there is no item
    preview,        \* ImportScreen: the state preview, NoPreview when null
    importCall,     \* performImport: where the call stands, its argument
                    \* merge and its local existingData
    calls           \* StorageManager: the calls of markSessionAttendance and
                    \* updateAttendance so far, each with its arguments, its
                    \* local data and where it stands

timeVars == <<timeStr, timeResult>>
lineVars == <<line, lineResult>>
fileVars == <<workbook, pc, sheetIdx, sheetName, header, dataRow, dayIdx, rowTime,
              timeslots, sessions, unparsedCells, uuidCalls, faults, visits,
              outcome>>
confVars == <<confArgs, confResult>>
\* the variables outside a call of parseExcelFile
importVars == <<stored, preview, importCall, calls>>
outsideVars == <<timeVars, lineVars, confVars, suspended, importVars>>
vars == <<outsideVars, fileVars>>

(***************************************************************************)
(* Values of JavaScript that are not strings.  They are one-element        *)
(* sequences whose element is no character, so they compare with strings   *)
(* and are equal to none.                                                  *)
(***************************************************************************)
Null == <<"null">>
Undefined == <<"undefined">>
NotRun == <<"not run">>

(***************************************************************************)
(* Characters                                                              *)
(***************************************************************************)
WhiteSpace == {" ", "\t", "\n", "\r"}
LineTerminators == {"\n", "\r"}
Digits == {"0", "1", "2", "3", "4", "5", "6", "7", "8", "9"}
DigitSeq == <<"0", "1", "2", "3", "4", "5", "6", "7", "8", "9">>
UpperSeq == <<"A", "B", "C", "D", "E", "F", "G", "H", "I", "J", "K", "L", "M",
              "N", "O", "P", "Q", "R", "S", "T", "U", "V", "W", "X", "Y", "Z">>
LowerSeq == <<"a", "b", "c", "d", "e", "f", "g", "h", "i", "j", "k", "l", "m",
              "n", "o", "p", "q", "r", "s", "t", "u", "v", "w", "x", "y", "z">>

IsSpace(c) == c \in WhiteSpace
IsDigit(c) == c \in Digits

DigitVal(c) == (CHOOSE i \in 1..10 : DigitSeq[i] = c) - 1

LowerChar(c) ==
    IF \E i \in 1..26 : UpperSeq[i] = c
    THEN LowerSeq[CHOOSE i \in 1..26 : UpperSeq[i] = c]
    ELSE c

UpperChar(c) ==
    IF \E i \in 1..26 : LowerSeq[i] = c
    THEN UpperSeq[CHOOSE i \in 1..26 : LowerSeq[i] = c]
    ELSE c

(***************************************************************************)
(* String methods of JavaScript, on sequences of characters                *)
(***************************************************************************)
ToLowerCase(s) == [i \in 1..Len(s) |-> LowerChar(s[i])]
ToUpperCase(s) == [i \in 1..Len(s) |-> UpperChar(s[i])]

\* s.substring(from, to) with 0-based from, exclusive to
Substring(s, from, to) == SubSeq(s, from + 1, to)

AllSpace(s) == \A i \in 1..Len(s) : IsSpace(s[i])

Trim(s) ==
    IF AllSpace(s) THEN <<>>
    ELSE LET first == CHOOSE i \in 1..Len(s) :
                          /\ ~IsSpace(s[i])
                          /\ \A j \in 1..(i - 1) : IsSpace(s[j])
             last == CHOOSE i \in 1..Len(s) :
                          /\ ~IsSpace(s[i])
                          /\ \A j \in (i + 1)..Len(s) : IsSpace(s[j])
         IN SubSeq(s, first, last)

\* s.replace(/\s+/g, ' ')
RECURSIVE CollapseSpaces(_)
CollapseSpaces(s) ==
    IF s = <<>> THEN <<>>
    ELSE IF IsSpace(Head(s))
         THEN IF Len(s) > 1 /\ IsSpace(s[2])
              THEN CollapseSpaces(Tail(s))
              ELSE <<" ">> \o CollapseSpaces(Tail(s))
         ELSE <<Head(s)>> \o CollapseSpaces(Tail(s))

\* 1-based position of the first / last occurrence of character c, 0 if none
\* (s.indexOf(c) + 1, s.lastIndexOf(c) + 1)
IndexOfChar(s, c) ==
    IF \E i \in 1..Len(s) : s[i] = c
    THEN CHOOSE i \in 1..Len(s) : s[i] = c /\ \A j \in 1..(i - 1) : s[j] # c
    ELSE 0

LastIndexOfChar(s, c) ==
    IF \E i \in 1..Len(s) : s[i] = c
    THEN CHOOSE i \in 1..Len(s) : s[i] = c /\ \A j \in (i + 1)..Len(s) : s[j] # c
    ELSE 0

\* s.includes(sub)
Includes(s, sub) ==
    \E i \in 0..(Len(s) - Len(sub)) : SubSeq(s, i + 1, i + Len(sub)) = sub

\* case-insensitive equality of a text with a literal of the source
EqualsIgnoreCase(s, lit) == ToLowerCase(s) = ToLowerCase(lit)

(***************************************************************************)
(* Numbers: parseInt, Number.prototype.toString, padStart(2, '0')          *)
(***************************************************************************)
\* parseInt gives NaN for a text that does not start with a digit
NaN == -1

RECURSIVE DigitsValue(_)
DigitsValue(s) ==
    IF s = <<>> THEN 0
    ELSE 10 * DigitsValue(SubSeq(s, 1, Len(s) - 1)) + DigitVal(s[Len(s)])

\* the longest prefix of s made of digits
DigitPrefix(s) ==
    LET n == CHOOSE k \in 0..Len(s) :
                 /\ \A i \in 1..k : IsDigit(s[i])
                 /\ (k < Len(s) => ~IsDigit(s[k + 1]))
    IN SubSeq(s, 1, n)

ParseInt(s) ==
    LET t == Trim(s)
    IN IF DigitPrefix(t) = <<>> THEN NaN ELSE DigitsValue(DigitPrefix(t))

RECURSIVE NatToString(_)
NatToString(n) ==
    IF n < 10 THEN <<DigitSeq[n + 1]>>
    ELSE NatToString(n \div 10) \o <<DigitSeq[(n % 10) + 1]>>

NumberToString(n) == IF n = NaN THEN <<"N", "a", "N">> ELSE NatToString(n)

\* a padStart that pads nothing
PadStart2_Unpadded(s) == s

PadStart2(s) == IF Len(s) < 2 THEN <<"0">> \o s ELSE s

(***************************************************************************)
(* ExcelParser.TIME_PATTERNS.  A match is the sequence of its capture      *)
(* groups (match[1], match[2], ...), NoMatch when the pattern fails.       *)
(***************************************************************************)
NoMatch == <<"no match">>

AllDigits(s) == \A i \in 1..Len(s) : IsDigit(s[i])

IsAmPm(s) == EqualsIgnoreCase(s, <<"A", "M">>) \/ EqualsIgnoreCase(s, <<"P", "M">>)

\* /^(\d{1,2})<sep>(\d{2})$/ with sep ":" or "."
MatchHourSepMinute(s, sep) ==
    IF \E h \in 1..2 :
          /\ Len(s) = h + 3
          /\ AllDigits(SubSeq(s, 1, h))
          /\ s[h + 1] = sep
          /\ AllDigits(SubSeq(s, h + 2, h + 3))
    THEN LET h == Len(s) - 3
         IN <<SubSeq(s, 1, h), SubSeq(s, h + 2, h + 3)>>
    ELSE NoMatch

\* /^(\d{1,2}):(\d{2})\s*(AM|PM)$/i
MatchHourMinuteAmPm(s) ==
    IF \E h \in 1..2 :
          /\ Len(s) >= h + 5
          /\ AllDigits(SubSeq(s, 1, h))
          /\ s[h + 1] = ":"
          /\ AllDigits(SubSeq(s, h + 2, h + 3))
          /\ AllSpace(SubSeq(s, h + 4, Len(s) - 2))
          /\ IsAmPm(SubSeq(s, Len(s) - 1, Len(s)))
    THEN LET h == CHOOSE h \in 1..2 : AllDigits(SubSeq(s, 1, h)) /\ s[h + 1] = ":"
         IN <<SubSeq(s, 1, h), SubSeq(s, h + 2, h + 3),
              SubSeq(s, Len(s) - 1, Len(s))>>
    ELSE NoMatch

\* /^(\d{1,2})\s*(AM|PM)$/i : two groups only, the second is the AM/PM text
MatchHourAmPm(s) ==
    IF \E h \in 1..2 :
          /\ Len(s) >= h + 2
          /\ AllDigits(SubSeq(s, 1, h))
          /\ AllSpace(SubSeq(s, h + 1, Len(s) - 2))
          /\ IsAmPm(SubSeq(s, Len(s) - 1, Len(s)))
    THEN LET h == CHOOSE h \in 1..2 :
                      /\ Len(s) >= h + 2
                      /\ AllDigits(SubSeq(s, 1, h))
                      /\ AllSpace(SubSeq(s, h + 1, Len(s) - 2))
         IN <<SubSeq(s, 1, h), SubSeq(s, Len(s) - 1, Len(s))>>
    ELSE NoMatch

TIME_PATTERNS(k, s) ==
    CASE k = 1 -> MatchHourSepMinute(s, ":")
      [] k = 2 -> MatchHourSepMinute(s, ".")
      [] k = 3 -> MatchHourMinuteAmPm(s)
      [] k = 4 -> MatchHourAmPm(s)

\* match[i], undefined beyond the pattern's groups
Group(match, i) == IF i <= Len(match) THEN match[i] ELSE Undefined

\* the characters normalizeTime keeps: /[^\d:.\sAPM]/gi removes the others
IsTimeChar(c) ==
    \/ IsDigit(c)
    \/ c \in {":", "."}
    \/ IsSpace(c)
    \/ c \in {"A", "P", "M", "a", "p", "m"}

Cleaned(s) == SelectSeq(CollapseSpaces(Trim(s)), IsTimeChar)

\* the body of the loop of normalizeTime for a pattern that matched
FormatMatch(match) ==
    LET h0 == ParseInt(match[1])
        minutes == IF Group(match, 2) # Undefined /\ Group(match, 2) # <<>>
                   THEN ParseInt(match[2]) ELSE 0
        ampm == IF Group(match, 3) = Undefined THEN Undefined
                ELSE ToUpperCase(match[3])
        h1 == IF ampm = <<"P", "M">> /\ h0 # 12 THEN h0 + 12 ELSE h0
        hours == IF ampm = <<"A", "M">> /\ h1 = 12 THEN 0 ELSE h1
    IN PadStart2(NumberToString(hours)) \o <<":">> \o PadStart2(NumberToString(minutes))

normalizeTime(s) ==
    LET cleaned == Cleaned(s)
    IN IF \E k \in 1..4 : TIME_PATTERNS(k, cleaned) # NoMatch
       THEN LET k == CHOOSE k \in 1..4 :
                         /\ TIME_PATTERNS(k, cleaned) # NoMatch
                         /\ \A j \in 1..(k - 1) : TIME_PATTERNS(j, cleaned) = NoMatch
            IN FormatMatch(TIME_PATTERNS(k, cleaned))
       ELSE IF Len(cleaned) \in 1..2 /\ AllDigits(cleaned) /\ ParseInt(cleaned) <= 23
            THEN PadStart2(NumberToString(ParseInt(cleaned))) \o <<":", "0", "0">>
            ELSE Null

(***************************************************************************)
(* ExcelParser.calculateLineConfidence                                     *)
(***************************************************************************)
\* a score that gives the subject one point
calculateLineConfidence_SubjectOne(subject, type, room, lecturer, groups) ==
    LET score == (IF subject # <<>> /\ Len(subject) > 3 THEN 1 ELSE 0)
               + (IF type # <<>> THEN 1 ELSE 0)
               + (IF room # <<>> THEN 1 ELSE 0)
               + (IF lecturer # <<>> /\ Len(lecturer) > 3 THEN 1 ELSE 0)
               + (IF Len(groups) > 0 THEN 1 ELSE 0)
    IN IF score >= 5 THEN "high"
       ELSE IF score >= 3 THEN "medium"
       ELSE "low"

calculateLineConfidence(subject, type, room, lecturer, groups) ==
    LET score == (IF subject # <<>> /\ Len(subject) > 3 THEN 2 ELSE 0)
               + (IF type # <<>> THEN 1 ELSE 0)
               + (IF room # <<>> THEN 1 ELSE 0)
               + (IF lecturer # <<>> /\ Len(lecturer) > 3 THEN 1 ELSE 0)
               + (IF Len(groups) > 0 THEN 1 ELSE 0)
    IN IF score >= 5 THEN "high"
       ELSE IF score >= 3 THEN "medium"
       ELSE "low"

(***************************************************************************)
(* The regular expressions of ExcelParser.parseSessionLine                 *)
(***************************************************************************)
\* first position after `from` (1-based, exclusive) that holds no white space;
\* Len(s) + 1 if there is none
SkipSpaces(s, from) ==
    CHOOSE p \in (from + 1)..(Len(s) + 1) :
        /\ \A k \in (from + 1)..(p - 1) : IsSpace(s[k])
        /\ (p <= Len(s) => ~IsSpace(s[p]))

\* first position after `from` that holds character c; 0 if there is none
NextIndexOfChar(s, c, from) ==
    IF \E k \in (from + 1)..Len(s) : s[k] = c
    THEN CHOOSE k \in (from + 1)..Len(s) :
             s[k] = c /\ \A j \in (from + 1)..(k - 1) : s[j] # c
    ELSE 0

\* /\(([^)]+)\)\s*$/ matches from position i
GroupsMatchAt(s, i) ==
    /\ s[i] = "("
    /\ LET close == NextIndexOfChar(s, ")", i)
       IN /\ close > i + 1
          /\ AllSpace(SubSeq(s, close + 1, Len(s)))

\* line.match(/\(([^)]+)\)\s*$/): <<match[1]>> of the leftmost match
GroupsMatch(s) ==
    IF \E i \in 1..Len(s) : GroupsMatchAt(s, i)
    THEN LET i == CHOOSE i \in 1..Len(s) :
                      /\ GroupsMatchAt(s, i)
                      /\ \A j \in 1..(i - 1) : ~GroupsMatchAt(s, j)
         IN <<SubSeq(s, i + 1, NextIndexOfChar(s, ")", i) - 1)>>
    ELSE NoMatch

IsGroupSeparator(c) == c = "," \/ IsSpace(c)

\* groupsStr.split(/[,\s]+/).map(g => g.trim()).filter(g => g && g.length > 0)
RECURSIVE SplitGroups(_)
SplitGroups(s) ==
    IF s = <<>> THEN <<>>
    ELSE IF IsGroupSeparator(Head(s)) THEN SplitGroups(Tail(s))
    ELSE LET n == CHOOSE k \in 1..Len(s) :
                      /\ \A i \in 1..k : ~IsGroupSeparator(s[i])
                      /\ (k < Len(s) => IsGroupSeparator(s[k + 1]))
         IN <<SubSeq(s, 1, n)>> \o SplitGroups(SubSeq(s, n + 1, Len(s)))

\* the text [^:()]+? of the lecturer pattern, for a match that starts at the
\* colon at position i: up to the next colon, or to the end of the line
LecturerText(s, i) ==
    LET colon == NextIndexOfChar(s, ":", i)
    IN IF colon = 0 THEN SubSeq(s, i + 1, Len(s)) ELSE SubSeq(s, i + 1, colon - 1)

\* /:\s*([^:()]+?)(?:\s*:\s*)?$/ matches from position i
LecturerMatchAt(s, i) ==
    /\ s[i] = ":"
    /\ LET colon == NextIndexOfChar(s, ":", i)
           text == LecturerText(s, i)
       IN /\ text # <<>>
          /\ \A k \in 1..Len(text) : text[k] \notin {":", "(", ")"}
          /\ (colon # 0 => AllSpace(SubSeq(s, colon + 1, Len(s))))

\* line.match(/:\s*([^:()]+?)(?:\s*:\s*)?$/): <<match[1].trim()>>
LecturerMatch(s) ==
    IF \E i \in 1..Len(s) : LecturerMatchAt(s, i)
    THEN LET i == CHOOSE i \in 1..Len(s) :
                      /\ LecturerMatchAt(s, i)
                      /\ \A j \in 1..(i - 1) : ~LecturerMatchAt(s, j)
         IN <<Trim(LecturerText(s, i))>>
    ELSE NoMatch

StartsWithIgnoreCase(s, lit) ==
    Len(s) >= Len(lit) /\ EqualsIgnoreCase(SubSeq(s, 1, Len(lit)), lit)

Titles == << <<"D", "r", ".">>, <<"M", "r", ".">>, <<"M", "s", ".">>,
             <<"P", "r", "o", "f", ".">> >>

\* s.replace(/^(Dr\.|Mr\.|Ms\.|Prof\.)\s*/i, '$1 ')
NormalizeTitle(s) ==
    IF \E t \in 1..Len(Titles) : StartsWithIgnoreCase(s, Titles[t])
    THEN LET t == CHOOSE t \in 1..Len(Titles) : StartsWithIgnoreCase(s, Titles[t])
             n == Len(Titles[t])
         IN SubSeq(s, 1, n) \o <<" ">> \o SubSeq(s, SkipSpaces(s, n), Len(s))
    ELSE s

\* /:\s*\(([^)]+)\)/ matches from position i
RoomMatchAt(s, i) ==
    /\ s[i] = ":"
    /\ LET open == SkipSpaces(s, i)
       IN /\ open <= Len(s)
          /\ s[open] = "("
          /\ NextIndexOfChar(s, ")", open) > open + 1

\* the leftmost match of /:\s*\(([^)]+)\)/: <<first, open, close>>, the
\* positions of its colon and of its parentheses
RoomMatch(s) ==
    IF \E i \in 1..Len(s) : RoomMatchAt(s, i)
    THEN LET i == CHOOSE i \in 1..Len(s) :
                      /\ RoomMatchAt(s, i)
                      /\ \A j \in 1..(i - 1) : ~RoomMatchAt(s, j)
             open == SkipSpaces(s, i)
         IN <<i, open, NextIndexOfChar(s, ")", open)>>
    ELSE NoMatch

\* s.replace(/^(Room\s*)?/i, '')
RemoveRoomPrefix(s) ==
    IF StartsWithIgnoreCase(s, <<"R", "o", "o", "m">>)
    THEN SubSeq(s, SkipSpaces(s, 4), Len(s))
    ELSE s

\* a type pattern that takes any letter
IsTypeLetter_AnyLetter(c) == \E i \in 1..Len(UpperSeq) : UpperChar(c) = UpperSeq[i]

IsTypeLetter(c) == UpperChar(c) \in {"P", "L", "T", "F", "R"}

\* the text after the subject: \s*(?:\(([PLTFpr]+)\))?\s*:?$ with flag i.
\* <<match[2]>> (Undefined without a type code), NoMatch if it does not fit
SubjectRest(r) ==
    LET p == SkipSpaces(r, 0)
        hasType == p <= Len(r) /\ r[p] = "("
        close == IF hasType THEN NextIndexOfChar(r, ")", p) ELSE 0
        typeOk == /\ hasType
                  /\ close > p + 1
                  /\ \A k \in (p + 1)..(close - 1) : IsTypeLetter(r[k])
        q == IF typeOk THEN SkipSpaces(r, close) ELSE p
        endOk == q = Len(r) + 1 \/ (q = Len(r) /\ r[q] = ":")
    IN IF hasType /\ ~typeOk THEN NoMatch
       ELSE IF ~endOk THEN NoMatch
       ELSE IF typeOk THEN <<SubSeq(r, p + 1, close - 1)>>
       ELSE <<Undefined>>

\* /^(.+?)\s*(?:\(([PLTFpr]+)\))?\s*:?$/i: the dot matches no line terminator,
\* the lazy (.+?) takes the shortest subject that lets the rest match
SubjectMatchAt(s, g) ==
    /\ \A k \in 1..g : s[k] \notin LineTerminators
    /\ SubjectRest(SubSeq(s, g + 1, Len(s))) # NoMatch

SubjectMatch(s) ==
    IF \E g \in 1..Len(s) : SubjectMatchAt(s, g)
    THEN LET g == CHOOSE g \in 1..Len(s) :
                      /\ SubjectMatchAt(s, g)
                      /\ \A h \in 1..(g - 1) : ~SubjectMatchAt(s, h)
         IN <<SubSeq(s, 1, g)>> \o SubjectRest(SubSeq(s, g + 1, Len(s)))
    ELSE NoMatch

\* s.replace(/^(.*?)\s*$/, '$1'): unchanged when the pattern does not match
TrimEnd(s) ==
    LET n == CHOOSE k \in 0..Len(s) :
                 /\ AllSpace(SubSeq(s, k + 1, Len(s)))
                 /\ (k > 0 => ~IsSpace(s[k]))
    IN IF \E k \in 1..n : s[k] \in LineTerminators THEN s ELSE SubSeq(s, 1, n)

\* s.replace(/:\s*$/, '')
RemoveTrailingColon(s) ==
    LET colon == LastIndexOfChar(s, ":")
    IN IF colon # 0 /\ AllSpace(SubSeq(s, colon + 1, Len(s)))
       THEN SubSeq(s, 1, colon - 1)
       ELSE s

(***************************************************************************)
(* ExcelParser.parseSessionLine, step by step over the shrinking line      *)
(***************************************************************************)
NullLine == [null |-> TRUE]

\* step 1: groups
groupsOf(l0) ==
    IF GroupsMatch(l0) # NoMatch THEN SplitGroups(GroupsMatch(l0)[1]) ELSE <<>>

lineAfterGroups(l0) ==
    IF GroupsMatch(l0) # NoMatch
    THEN Trim(Substring(l0, 0, LastIndexOfChar(l0, "(") - 1))
    ELSE l0

\* step 2: lecturer
lecturerOf(l1) ==
    IF LecturerMatch(l1) # NoMatch
    THEN CollapseSpaces(NormalizeTitle(LecturerMatch(l1)[1]))
    ELSE <<>>

lineAfterLecturer(l1) ==
    IF LecturerMatch(l1) # NoMatch
    THEN Trim(Substring(l1, 0, LastIndexOfChar(l1, ":") - 1))
    ELSE l1

\* step 3: room
roomOf(l2) ==
    IF RoomMatch(l2) # NoMatch
    THEN LET m == RoomMatch(l2)
         IN CollapseSpaces(RemoveRoomPrefix(Trim(SubSeq(l2, m[2] + 1, m[3] - 1))))
    ELSE <<>>

lineAfterRoom(l2) ==
    IF RoomMatch(l2) # NoMatch
    THEN LET m == RoomMatch(l2)
         IN Trim(SubSeq(l2, 1, m[1] - 1) \o SubSeq(l2, m[3] + 1, Len(l2)))
    ELSE l2

\* step 4 without the replace(/\s+/g, ' ') of the subject
subjectOf_Uncollapsed(l3) ==
    IF SubjectMatch(l3) # NoMatch
    THEN TrimEnd(Trim(SubjectMatch(l3)[1]))
    ELSE Trim(RemoveTrailingColon(l3))

\* step 4: subject and type
subjectOf(l3) ==
    IF SubjectMatch(l3) # NoMatch
    THEN TrimEnd(CollapseSpaces(Trim(SubjectMatch(l3)[1])))
    ELSE CollapseSpaces(Trim(RemoveTrailingColon(l3)))

typeOf(l3) ==
    IF SubjectMatch(l3) # NoMatch /\ SubjectMatch(l3)[2] # Undefined
    THEN ToUpperCase(SubjectMatch(l3)[2])
    ELSE <<>>

\* a parseSessionLine that returns a ParsedCell with an empty subject too
ParsedCell_KeepsEmpty(subject_name, session_type, room_or_code, lecturer, groups, l3) ==
    [subject_name |-> subject_name,
     session_type |-> session_type,
     room_or_code |-> room_or_code,
     lecturer |-> lecturer,
     groups |-> groups,
     raw_text |-> l3,
     confidence |-> calculateLineConfidence(subject_name, session_type,
                                            room_or_code, lecturer, groups)]

\* steps 5 and 6: null for an empty subject, else the ParsedCell
ParsedCell(subject_name, session_type, room_or_code, lecturer, groups, l3) ==
    IF subject_name = <<>> THEN NullLine
    ELSE [subject_name |-> subject_name,
          session_type |-> session_type,
          room_or_code |-> room_or_code,
          lecturer |-> lecturer,
          groups |-> groups,
          raw_text |-> l3,
          confidence |-> calculateLineConfidence(subject_name, session_type,
                                                 room_or_code, lecturer, groups)]

\* the steps in their order, each on the line the step before it left
SubjectStep(groups, lecturer, room_or_code, l3) ==
    ParsedCell(subjectOf(l3), typeOf(l3), room_or_code, lecturer, groups, l3)

RoomStep(groups, lecturer, l2) ==
    SubjectStep(groups, lecturer, roomOf(l2), lineAfterRoom(l2))

LecturerStep(groups, l1) ==
    RoomStep(groups, lecturerOf(l1), lineAfterLecturer(l1))

parseSessionLine(l0) == LecturerStep(groupsOf(l0), lineAfterGroups(l0))

(***************************************************************************)
(* The workbook of the xlsx decoder.  A workbook is the sequence of its    *)
(* sheets in the order of workbook.SheetNames; the name of the i-th sheet  *)
(* is SheetName(i).  A sheet is [ref, cells]: ref is its range             *)
(* [sr, sc, er, ec] (0-based, as XLSX.utils.decode_range gives it) or      *)
(* NoRef for a sheet without '!ref', and cells maps the positions      *)
(* <<row, col>> that hold a cell to the text of cell.v.                    *)
(***************************************************************************)
DAYS == << <<"M", "o", "n", "d", "a", "y">>,
           <<"T", "u", "e", "s", "d", "a", "y">>,
           <<"W", "e", "d", "n", "e", "s", "d", "a", "y">>,
           <<"T", "h", "u", "r", "s", "d", "a", "y">>,
           <<"F", "r", "i", "d", "a", "y">>,
           <<"S", "a", "t", "u", "r", "d", "a", "y">>,
           <<"S", "u", "n", "d", "a", "y">> >>

SheetName(i) == <<"Sheet", i>>

\* workbook.Sheets[sheetName]
SheetOf(wb, name) == wb[name[2]]

\* XLSX.utils.decode_range(worksheet['!ref'] || 'A1:A1')
NoRef == [undefined |-> TRUE]

DecodeRange(sheet) ==
    IF sheet.ref = NoRef THEN [sr |-> 0, sc |-> 0, er |-> 0, ec |-> 0]
    ELSE sheet.ref

\* cell.v.toString() of worksheet[encode_cell({r, c})]; the empty text when
\* there is no cell or its value is falsy (cell && cell.v)
CellValue(sheet, r, c) ==
    IF <<r, c>> \in DOMAIN sheet.cells THEN sheet.cells[<<r, c>>] ELSE <<>>

\* cell.v.toString().toLowerCase().trim()
CellText(sheet, r, c) == Trim(ToLowerCase(CellValue(sheet, r, c)))

Min(a, b) == IF a <= b THEN a ELSE b

TimeWord == <<"t", "i", "m", "e">>

\* the inner loop of both header scans: some weekday name is in the text
NamesDay(text, d) == Includes(text, ToLowerCase(DAYS[d]))

(***************************************************************************)
(* ExcelParser.findTimetableSheet                                          *)
(***************************************************************************)
\* the columns the scan of findTimetableSheet visits in a row
LocatorCols(range) == range.sc..Min(range.ec, range.sc + 10)

\* the rows both header scans visit
HeaderRows(range) == range.sr..Min(range.er, range.sr + 10)

\* a hasTime that is not reset at the start of a row
hasTime_NotReset(sheet, row) ==
    \E r \in HeaderRows(DecodeRange(sheet)), col \in LocatorCols(DecodeRange(sheet)) :
        /\ r <= row
        /\ CellValue(sheet, r, col) # <<>>
        /\ Includes(CellText(sheet, r, col), TimeWord)

\* hasTime after the column loop of one row
hasTime(sheet, row) ==
    \E col \in LocatorCols(DecodeRange(sheet)) :
        /\ CellValue(sheet, row, col) # <<>>
        /\ Includes(CellText(sheet, row, col), TimeWord)

\* dayCount after the column loop of one row: one per cell that names a day
dayCount(sheet, row) ==
    Cardinality({col \in LocatorCols(DecodeRange(sheet)) :
                    /\ CellValue(sheet, row, col) # <<>>
                    /\ \E d \in 1..Len(DAYS) : NamesDay(CellText(sheet, row, col), d)})

\* the test at the end of the row loop: return sheetName
RowReturnsSheet(sheet, row) == hasTime(sheet, row) /\ dayCount(sheet, row) >= 3

\* the row loop of one sheet returns its name
SheetReturns(sheet) ==
    \E row \in HeaderRows(DecodeRange(sheet)) : RowReturnsSheet(sheet, row)

(***************************************************************************)
(* ExcelParser.parseWorksheet: the header scan.  The scan state is         *)
(* [headerRow, timeCol, dayCols]; dayCols is the sequence of the pairs     *)
(* <<day, col>> in the insertion order of the object's keys, which is the  *)
(* order Object.entries gives them in.                                     *)
(***************************************************************************)
NoHeader == [headerRow |-> -1, timeCol |-> -1, dayCols |-> <<>>]

HasKey(dayCols, d) == \E i \in 1..Len(dayCols) : dayCols[i][1] = d

\* dayCols[day] = col
SetDayCol(dayCols, d, col) ==
    IF HasKey(dayCols, d)
    THEN [i \in 1..Len(dayCols) |->
             IF dayCols[i][1] = d THEN <<d, col>> ELSE dayCols[i]]
    ELSE Append(dayCols, <<d, col>>)

\* for (const day of this.DAYS) if (cellText.includes(day)) dayCols[day] = col
RECURSIVE SetDays(_, _, _, _)
SetDays(dayCols, text, col, d) ==
    IF d > Len(DAYS) THEN dayCols
    ELSE SetDays(IF NamesDay(text, d) THEN SetDayCol(dayCols, d, col) ELSE dayCols,
                 text, col, d + 1)

\* the body of the column loop
ScanCell(st, sheet, row, col) ==
    IF CellValue(sheet, row, col) = <<>> THEN st
    ELSE LET text == CellText(sheet, row, col)
             timed == Includes(text, TimeWord)
         IN [headerRow |-> IF timed THEN row ELSE st.headerRow,
             timeCol |-> IF timed THEN col ELSE st.timeCol,
             dayCols |-> SetDays(st.dayCols, text, col, 1)]

\* the last column the header scan of parseWorksheet visits in a row
ScanLastCol(range) == range.ec

RECURSIVE ScanCols(_, _, _, _)
ScanCols(st, sheet, row, col) ==
    IF col > ScanLastCol(DecodeRange(sheet)) THEN st
    ELSE ScanCols(ScanCell(st, sheet, row, col), sheet, row, col + 1)

\* a scan without the break
ScanStops_Never(st) == FALSE

\* the break at the end of the row loop
ScanStops(st) == st.headerRow # -1 /\ Len(st.dayCols) >= 3

RECURSIVE ScanRows(_, _, _)
\* a scan of every row of the used range
RECURSIVE ScanRows_AllRows(_, _, _)
ScanRows_AllRows(st, sheet, row) ==
    IF row > DecodeRange(sheet).er THEN st
    ELSE ScanRows_AllRows(ScanCols(st, sheet, row, DecodeRange(sheet).sc), sheet,
                          row + 1)

ScanRows(st, sheet, row) ==
    IF row > Min(DecodeRange(sheet).er, DecodeRange(sheet).sr + 10) THEN st
    ELSE LET next == ScanCols(st, sheet, row, DecodeRange(sheet).sc)
         IN IF ScanStops(next) THEN next ELSE ScanRows(next, sheet, row + 1)

ScanHeader(sheet) == ScanRows(NoHeader, sheet, DecodeRange(sheet).sr)

(***************************************************************************)
(* The messages of the errors of parseExcelFile, findTimetableSheet and    *)
(* parseWorksheet, character by character                                  *)
(***************************************************************************)
\* "No timetable sheet found. Looking for headers containing 'Time' and weekday names."
NoSheetMessage ==
    <<"N", "o", " ", "t", "i", "m", "e", "t", "a", "b", "l", "e", " ", "s",
      "h", "e", "e", "t", " ", "f", "o", "u", "n", "d", ".", " ", "L", "o",
      "o", "k", "i", "n", "g", " ", "f", "o", "r", " ", "h", "e", "a", "d",
      "e", "r", "s", " ", "c", "o", "n", "t", "a", "i", "n", "i", "n", "g",
      " ", "\"", "T", "i", "m", "e", "\"", " ", "a", "n", "d", " ", "w",
      "e", "e", "k", "d", "a", "y", " ", "n", "a", "m", "e", "s", ".">>

\* "Could not find timetable structure. Ensure your Excel has a 'Time' column and weekday headers."
StructureMessage ==
    <<"C", "o", "u", "l", "d", " ", "n", "o", "t", " ", "f", "i", "n", "d",
      " ", "t", "i", "m", "e", "t", "a", "b", "l", "e", " ", "s", "t", "r",
      "u", "c", "t", "u", "r", "e", ".", " ", "E", "n", "s", "u", "r", "e",
      " ", "y", "o", "u", "r", " ", "E", "x", "c", "e", "l", " ", "h", "a",
      "s", " ", "a", " ", "\"", "T", "i", "m", "e", "\"", " ", "c", "o",
      "l", "u", "m", "n", " ", "a", "n", "d", " ", "w", "e", "e", "k", "d",
      "a", "y", " ", "h", "e", "a", "d", "e", "r", "s", ".">>

\* "Unable to access the selected file. Please try selecting the file again or ensure it's saved locally."
FileAccessMessage ==
    <<"U", "n", "a", "b", "l", "e", " ", "t", "o", " ", "a", "c", "c", "e",
      "s", "s", " ", "t", "h", "e", " ", "s", "e", "l", "e", "c", "t", "e",
      "d", " ", "f", "i", "l", "e", ".", " ", "P", "l", "e", "a", "s", "e",
      " ", "t", "r", "y", " ", "s", "e", "l", "e", "c", "t", "i", "n", "g",
      " ", "t", "h", "e", " ", "f", "i", "l", "e", " ", "a", "g", "a", "i",
      "n", " ", "o", "r", " ", "e", "n", "s", "u", "r", "e", " ", "i", "t",
      "'", "s", " ", "s", "a", "v", "e", "d", " ", "l", "o", "c", "a", "l",
      "l", "y", ".">>

\* "File access error. Please ensure the file is accessible and try again."
FetchMessage ==
    <<"F", "i", "l", "e", " ", "a", "c", "c", "e", "s", "s", " ", "e", "r",
      "r", "o", "r", ".", " ", "P", "l", "e", "a", "s", "e", " ", "e", "n",
      "s", "u", "r", "e", " ", "t", "h", "e", " ", "f", "i", "l", "e", " ",
      "i", "s", " ", "a", "c", "c", "e", "s", "s", "i", "b", "l", "e", " ",
      "a", "n", "d", " ", "t", "r", "y", " ", "a", "g", "a", "i", "n",
      ".">>

\* "Failed to parse Excel file: "
FailedPrefix ==
    <<"F", "a", "i", "l", "e", "d", " ", "t", "o", " ", "p", "a", "r", "s",
      "e", " ", "E", "x", "c", "e", "l", " ", "f", "i", "l", "e", ":",
      " ">>

(***************************************************************************)
(* ExcelParser.calculateConfidence: parsed / Math.max(total, 1) against    *)
(* 0.8 and 0.6, in integers                                                *)
(***************************************************************************)
Max(a, b) == IF a >= b THEN a ELSE b

\* a ratio over total itself
calculateConfidence_NoFloor(parsed, total) ==
    IF 10 * parsed >= 8 * total THEN "high"
    ELSE IF 10 * parsed >= 6 * total THEN "medium"
    ELSE "low"

calculateConfidence(parsed, total) ==
    IF 10 * parsed >= 8 * Max(total, 1) THEN "high"
    ELSE IF 10 * parsed >= 6 * Max(total, 1) THEN "medium"
    ELSE "low"

(***************************************************************************)
(* ExcelParser.parseSessionCell.  The environment of a call is             *)
(*   lineErrors  the lines (by position among the non-blank lines) in      *)
(*               which parseSessionLine hits an internal error, which its  *)
(*               own try/catch turns into null;                            *)
(*   uuidFailAt  k when the k-th call of uuidv4 of this cell throws, 0     *)
(*               when none does.                                           *)
(* The result is [threw, sessions]: an exception leaves the function       *)
(* without its local array.                                                *)
(***************************************************************************)
\* s.split('\n')
RECURSIVE SplitLines(_)
SplitLines(s) ==
    LET nl == IndexOfChar(s, "\n")
    IN IF nl = 0 THEN <<s>>
       ELSE <<SubSeq(s, 1, nl - 1)>> \o SplitLines(SubSeq(s, nl + 1, Len(s)))

IsNonBlank(l) == Trim(l) # <<>>

\* cellContent.split('\n').filter(line => line.trim())
CellLines(cellContent) == SelectSeq(SplitLines(cellContent), IsNonBlank)

\* parseSessionLine with its catch: an internal error gives null
ParsedLine(lines, i, lineErrors) ==
    IF i \in lineErrors THEN NullLine ELSE parseSessionLine(Trim(lines[i]))

\* a Session whose notes depend on its identifier
NewSession_IdInNotes(id, day, startTime, parsed) ==
    [id |-> id,
     day |-> day,
     start_time |-> startTime,
     duration_slots |-> 1,
     subject_name |-> parsed.subject_name,
     session_type |-> parsed.session_type,
     room |-> parsed.room_or_code,
     lecturer |-> parsed.lecturer,
     groups |-> parsed.groups,
     notes |-> IF id % 2 = 0 THEN <<"#">> ELSE <<>>,
     attendance_marked |-> Null]

\* a Session that is created as attended
NewSession_Marked(id, day, startTime, parsed) ==
    [id |-> id,
     day |-> day,
     start_time |-> startTime,
     duration_slots |-> 1,
     subject_name |-> parsed.subject_name,
     session_type |-> parsed.session_type,
     room |-> parsed.room_or_code,
     lecturer |-> parsed.lecturer,
     groups |-> parsed.groups,
     notes |-> <<>>,
     attendance_marked |-> <<"p", "r", "e", "s", "e", "n", "t">>]

NewSession(id, day, startTime, parsed) ==
    [id |-> id,
     day |-> day,
     start_time |-> startTime,
     duration_slots |-> 1,
     subject_name |-> parsed.subject_name,
     session_type |-> parsed.session_type,
     room |-> parsed.room_or_code,
     lecturer |-> parsed.lecturer,
     groups |-> parsed.groups,
     notes |-> <<>>,
     attendance_marked |-> Null]

\* the result of a call that an exception leaves
Thrown == [threw |-> TRUE, sessions |-> <<>>]

\* for (const line of lines): made is the local array sessions so far, ids
\* the number of identifiers handed out before the call
RECURSIVE CellLoop(_, _, _, _, _, _, _, _)
\* a loop that a null line ends
CellLine_StopsAtNull(lines, i, day, startTime, lineErrors, uuidFailAt, ids, made, parsed) ==
    IF parsed = NullLine
    THEN [threw |-> FALSE, sessions |-> made]
    ELSE IF Len(made) + 1 = uuidFailAt
    THEN Thrown
    ELSE CellLoop(lines, i + 1, day, startTime, lineErrors, uuidFailAt, ids,
                  Append(made, NewSession(ids + Len(made) + 1, day, startTime,
                                          parsed)))

\* a loop that calls uuidv4 once for the cell
CellLine_OneId(lines, i, day, startTime, lineErrors, uuidFailAt, ids, made, parsed) ==
    IF parsed = NullLine
    THEN CellLoop(lines, i + 1, day, startTime, lineErrors, uuidFailAt, ids, made)
    ELSE IF Len(made) + 1 = uuidFailAt
    THEN Thrown
    ELSE CellLoop(lines, i + 1, day, startTime, lineErrors, uuidFailAt, ids,
                  Append(made, NewSession(ids + 1, day, startTime, parsed)))

\* the body of the loop for line i, parsed to `parsed`
CellLine(lines, i, day, startTime, lineErrors, uuidFailAt, ids, made, parsed) ==
    IF parsed = NullLine
    THEN CellLoop(lines, i + 1, day, startTime, lineErrors, uuidFailAt, ids, made)
    ELSE IF Len(made) + 1 = uuidFailAt
    THEN Thrown
    ELSE CellLoop(lines, i + 1, day, startTime, lineErrors, uuidFailAt, ids,
                  Append(made, NewSession(ids + Len(made) + 1, day, startTime,
                                          parsed)))

CellLoop(lines, i, day, startTime, lineErrors, uuidFailAt, ids, made) ==
    IF i > Len(lines) THEN [threw |-> FALSE, sessions |-> made]
    ELSE CellLine(lines, i, day, startTime, lineErrors, uuidFailAt, ids, made,
                  ParsedLine(lines, i, lineErrors))

parseSessionCell(cellContent, day, startTime, lineErrors, uuidFailAt, ids) ==
    CellLoop(CellLines(cellContent), 1, day, startTime, lineErrors, uuidFailAt,
             ids, <<>>)

(***************************************************************************)
(* ExcelParser.parseExcelFile: the catch block                             *)
(***************************************************************************)
Platforms == {"web", "ios", "android"}

FileSystemWord == <<"F", "i", "l", "e", "S", "y", "s", "t", "e", "m">>
FetchWord == <<"f", "e", "t", "c", "h">>

\* a catch block that drops the message of the caught Error
CatchMessage_Unknown(platform, message) ==
    FailedPrefix \o <<"U", "n", "k", "n", "o", "w", "n", " ", "e", "r", "r", "o", "r">>

\* the message of the Error the catch block throws for a caught Error
CatchMessage(platform, message) ==
    IF platform # "web" /\ Includes(message, FileSystemWord) THEN FileAccessMessage
    ELSE IF platform # "web" /\ Includes(message, FetchWord) THEN FetchMessage
    ELSE FailedPrefix \o message

(***************************************************************************)
(* Inputs: the texts of the cells of the workbooks                         *)
(***************************************************************************)
TxtTime == <<"T", "i", "m", "e">>
TxtName == <<"N", "a", "m", "e">>
TxtMonday == <<"M", "o", "n", "d", "a", "y">>
TxtTuesday == <<"T", "u", "e", "s", "d", "a", "y">>
TxtWednesday == <<"W", "e", "d", "n", "e", "s", "d", "a", "y">>
TxtThursday == <<"T", "h", "u", "r", "s", "d", "a", "y">>
TxtMonTue == <<"M", "o", "n", "d", "a", "y", " ", "T", "u", "e", "s", "d", "a", "y">>
TxtNine == <<"9", ":", "0", "0">>
TxtTenThirty == <<"1", "0", ".", "3", "0">>
TxtTwoPm == <<"2", " ", "P", "M">>
TxtNoon == <<"n", "o", "o", "n">>
TxtLate == <<"2", "5", ":", "9", "9">>
TxtMath == <<"M", "a", "t", "h", " ", "(", "L", ")", ":", " ", "D", "r", ".", "S", "m", "i", "t", "h">>
TxtLunch == <<"L", "u", "n", "c", "h", " ", "B", "r", "e", "a", "k">>
TxtThreeLines == <<"A", "I", "\n", "(", "G", "1", ")", "\n", "P", "E">>
TxtTwoLines == <<" ", "D", "B", ":", " ", "(", "R", "o", "o", "m", " ", "2", ")", " ", "\n", "O", "S", " ">>
TxtGroupsOnly == <<"(", "G", "1", ",", "G", "2", ")">>
TxtSpaces == <<" ", " ">>

(***************************************************************************)
(* Inputs: the sheets.  DenseSheet lays rows of texts out from A1; an      *)
(* empty text is a position without a cell.                                *)
(***************************************************************************)
DenseSheet(rows) ==
    [ref |-> [sr |-> 0, sc |-> 0, er |-> Len(rows) - 1, ec |-> Len(rows[1]) - 1],
     cells |-> [p \in {q \in (0..(Len(rows) - 1)) \X (0..(Len(rows[1]) - 1)) :
                          rows[q[1] + 1][q[2] + 1] # <<>>}
                   |-> rows[p[1] + 1][p[2] + 1]]]

\* Time and three weekdays in the first row, no data row
HeaderOnlySheet ==
    DenseSheet(<< <<TxtTime, TxtMonday, TxtTuesday, TxtWednesday>> >>)

\* Time in the first row, the weekdays in the second
SplitHeaderSheet ==
    DenseSheet(<< <<TxtTime, <<>>, <<>>, <<>>>>,
                  <<<<>>, TxtMonday, TxtTuesday, TxtWednesday>>,
                  <<TxtNine, TxtLunch, <<>>, <<>>>> >>)

\* Time and the same weekday in three cells of the first row
RepeatedDaySheet ==
    DenseSheet(<< <<TxtTime, TxtMonday, TxtMonday, TxtMonday>>,
                  <<TxtNine, <<>>, <<>>, TxtLunch>> >>)

\* three weekdays and no cell that says time
NoTimeSheet ==
    DenseSheet(<< <<TxtName, TxtMonday, TxtTuesday, TxtWednesday>>,
                  <<TxtNine, TxtLunch, <<>>, <<>>>> >>)

\* a sheet without '!ref' and without cells
EmptySheet == [ref |-> NoRef, cells |-> <<>>]

\* the header in row 12 of the sheet, below the rows the scans read
LateHeaderSheet ==
    [ref |-> [sr |-> 0, sc |-> 0, er |-> 12, ec |-> 3],
     cells |-> (<<11, 0>> :> TxtTime @@ <<11, 1>> :> TxtMonday
                @@ <<11, 2>> :> TxtTuesday @@ <<11, 3>> :> TxtWednesday
                @@ <<12, 0>> :> TxtNine @@ <<12, 1>> :> TxtLunch)]

\* three weekdays in columns A to C, Time in column L
FarTimeSheet ==
    [ref |-> [sr |-> 0, sc |-> 0, er |-> 1, ec |-> 11],
     cells |-> (<<0, 0>> :> TxtMonday @@ <<0, 1>> :> TxtTuesday
                @@ <<0, 2>> :> TxtWednesday @@ <<0, 11>> :> TxtTime
                @@ <<1, 11>> :> TxtTenThirty @@ <<1, 0>> :> TxtLunch)]

\* a timetable: cells of one to three lines, a blank cell, a cell of spaces,
\* a row whose time has no minutes and a row whose time is no time
TimetableSheet ==
    DenseSheet(<< <<TxtTime, TxtMonday, TxtTuesday, TxtWednesday>>,
                  <<TxtNine, TxtMath, <<>>, TxtThreeLines>>,
                  <<TxtNoon, TxtLunch, TxtMath, <<>>>>,
                  <<TxtTwoPm, TxtSpaces, TxtGroupsOnly, TxtTwoLines>> >>)

\* a timetable whose second column is headed by two weekdays, and a row
\* without a time cell
SharedColumnSheet ==
    DenseSheet(<< <<TxtTime, TxtMonTue, TxtWednesday, TxtThursday>>,
                  <<TxtTenThirty, TxtThreeLines, TxtLunch, <<>>>>,
                  <<<<>>, TxtMath, <<>>, <<>>>>,
                  <<TxtLate, <<>>, <<>>, TxtTwoLines>> >>)

\* a header that shifts while it is scanned: two cells that say time and two
\* weekdays in the first row, a third weekday, a weekday again and a cell that
\* says time in the second, and a data row with a weekday and a cell that
\* says time
ShiftingHeaderSheet ==
    DenseSheet(<< <<TxtTime, TxtMonday, TxtTuesday, TxtTime>>,
                  <<<<>>, TxtWednesday, TxtTime, <<>>>>,
                  <<TxtMonday, TxtLunch, TxtNine, TxtTime>> >>)

\* the sheets with hardly a data row, and the timetables
LightSheets == {HeaderOnlySheet, SplitHeaderSheet, RepeatedDaySheet, NoTimeSheet,
                EmptySheet, LateHeaderSheet, FarTimeSheet}
DataSheets == {TimetableSheet, SharedColumnSheet, ShiftingHeaderSheet}

(***************************************************************************)
(* Bounds                                                                  *)
(***************************************************************************)
\* the most sheets of a workbook of light sheets
MaxSheets == 3
\* the most light sheets in front of a timetable
MaxLeading == 1
\* the most failures the environment injects into one call of parseExcelFile
MaxFaults == 1
\* the longest generated time text
MaxTimeLen == 4
\* the longest generated line
MaxLineLen == 5

\* all sequences over S of length at most n
SeqUpTo(S, n) == UNION {[1..k -> S] : k \in 0..n}

\* the workbooks: no sheet, light sheets only, or light sheets and a timetable
Workbooks ==
    SeqUpTo(LightSheets, MaxSheets)
        \cup {pre \o <<sh>> : pre \in SeqUpTo(LightSheets, MaxLeading),
                              sh \in DataSheets}

(***************************************************************************)
(* ExcelParser.parseExcelFile, from the decoded workbook on                *)
(***************************************************************************)
Pending == [kind |-> "pending"]
NotRunLine == [notRun |-> TRUE]

IdleTime == timeStr = <<>> /\ timeResult = Null
IdleLine == line = <<>> /\ lineResult = NullLine
NotScored == "not scored"
IdleConf == confArgs = <<>> /\ confResult = NotScored

\* no second call of parseExcelFile
NoCall == [none |-> TRUE]

\* no item in storage, no preview on the screen, no call of performImport
NoData == [stored |-> FALSE]
NoPreview == [kind |-> "null"]
NoImport == [pc |-> "idle", merge |-> FALSE, existingData |-> NoData]
IdleImport ==
    stored = NoData /\ preview = NoPreview /\ importCall = NoImport /\ calls = <<>>

Init ==
    /\ IdleTime
    /\ IdleLine
    /\ IdleConf
    /\ IdleImport
    /\ suspended = NoCall
    /\ workbook \in Workbooks
    /\ pc = "findSheet"
    /\ sheetIdx = 1
    /\ sheetName = Undefined
    /\ header = NoHeader
    /\ dataRow = 0
    /\ dayIdx = 0
    /\ rowTime = Null
    /\ timeslots = <<>>
    /\ sessions = <<>>
    /\ unparsedCells = <<>>
    /\ uuidCalls = 0
    /\ faults = 0
    /\ visits = <<>>
    /\ outcome = Pending

\* the worksheet parseWorksheet is called with
worksheet == SheetOf(workbook, sheetName)

parseVars == <<header, dataRow, dayIdx, rowTime, timeslots, sessions,
               unparsedCells, uuidCalls, faults, visits>>

\* findTimetableSheet: the row loop of the sheet returns its name
FindSheetReturn ==
    /\ pc = "findSheet"
    /\ sheetIdx <= Len(workbook)
    /\ SheetReturns(workbook[sheetIdx])
    /\ sheetName' = SheetName(sheetIdx)
    /\ pc' = "parseWorksheet"
    /\ UNCHANGED <<outsideVars, workbook, sheetIdx, parseVars, outcome>>

\* findTimetableSheet: no row of the sheet returns, on to the next sheet
FindSheetNext ==
    /\ pc = "findSheet"
    /\ sheetIdx <= Len(workbook)
    /\ ~SheetReturns(workbook[sheetIdx])
    /\ sheetIdx' = sheetIdx + 1
    /\ UNCHANGED <<outsideVars, workbook, pc, sheetName, parseVars, outcome>>

\* a fallback to the last sheet instead of the first
FindSheetFallback_Last ==
    /\ pc = "findSheet"
    /\ sheetIdx > Len(workbook)
    /\ Len(workbook) >= 1
    /\ sheetName' = SheetName(Len(workbook))
    /\ pc' = "parseWorksheet"
    /\ UNCHANGED <<outsideVars, workbook, sheetIdx, parseVars, outcome>>

\* findTimetableSheet: return workbook.SheetNames[0]
FindSheetFallback ==
    /\ pc = "findSheet"
    /\ sheetIdx > Len(workbook)
    /\ Len(workbook) >= 1
    /\ sheetName' = SheetName(1)
    /\ pc' = "parseWorksheet"
    /\ UNCHANGED <<outsideVars, workbook, sheetIdx, parseVars, outcome>>

\* workbook.SheetNames[0] is undefined: if (!sheetName) throw
NoSheetFound ==
    /\ pc = "findSheet"
    /\ sheetIdx > Len(workbook)
    /\ Len(workbook) = 0
    /\ outcome' = [kind |-> "raised", message |-> NoSheetMessage]
    /\ pc' = "catch"
    /\ UNCHANGED <<outsideVars, workbook, sheetIdx, sheetName, parseVars>>

\* parseWorksheet: the header scan found a header row and a time column
HeaderFound ==
    /\ pc = "parseWorksheet"
    /\ LET st == ScanHeader(worksheet)
       IN /\ ~(st.headerRow = -1 \/ st.timeCol = -1)
          /\ header' = st
          /\ dataRow' = st.headerRow + 1
    /\ pc' = "rows"
    /\ UNCHANGED <<outsideVars, workbook, sheetIdx, sheetName, dayIdx,
                   rowTime, timeslots, sessions, unparsedCells, uuidCalls, faults,
                   visits, outcome>>

\* parseWorksheet: throw new Error('Could not find timetable structure...')
HeaderMissing ==
    /\ pc = "parseWorksheet"
    /\ LET st == ScanHeader(worksheet)
       IN /\ (st.headerRow = -1 \/ st.timeCol = -1)
          /\ header' = st
    /\ outcome' = [kind |-> "raised", message |-> StructureMessage]
    /\ pc' = "catch"
    /\ UNCHANGED <<outsideVars, workbook, sheetIdx, sheetName, dataRow,
                   dayIdx, rowTime, timeslots, sessions, unparsedCells, uuidCalls,
                   faults, visits>>

\* the text of the time cell of the row
TimeCellValue == CellValue(worksheet, dataRow, header.timeCol)

\* a row loop that an unusable time cell ends
SkipRow_Breaks ==
    /\ pc = "rows"
    /\ dayIdx = 0
    /\ dataRow <= DecodeRange(worksheet).er
    /\ (TimeCellValue = <<>> \/ normalizeTime(TimeCellValue) = Null)
    /\ dataRow' = DecodeRange(worksheet).er + 1
    /\ UNCHANGED <<outsideVars, workbook, pc, sheetIdx, sheetName, header,
                   dayIdx, rowTime, timeslots, sessions, unparsedCells, uuidCalls,
                   faults, visits, outcome>>

\* the row loop: if (!timeCell || !timeCell.v) continue; if (!timeStr) continue
SkipRow ==
    /\ pc = "rows"
    /\ dayIdx = 0
    /\ dataRow <= DecodeRange(worksheet).er
    /\ (TimeCellValue = <<>> \/ normalizeTime(TimeCellValue) = Null)
    /\ dataRow' = dataRow + 1
    /\ UNCHANGED <<outsideVars, workbook, pc, sheetIdx, sheetName, header,
                   dayIdx, rowTime, timeslots, sessions, unparsedCells, uuidCalls,
                   faults, visits, outcome>>

\* the row loop: timeslots.push(timeStr), then the loop over dayCols
BeginRow ==
    /\ pc = "rows"
    /\ dayIdx = 0
    /\ dataRow <= DecodeRange(worksheet).er
    /\ TimeCellValue # <<>>
    /\ normalizeTime(TimeCellValue) # Null
    /\ rowTime' = normalizeTime(TimeCellValue)
    /\ timeslots' = Append(timeslots, normalizeTime(TimeCellValue))
    /\ dayIdx' = 1
    /\ UNCHANGED <<outsideVars, workbook, pc, sheetIdx, sheetName, header,
                   dataRow, sessions, unparsedCells, uuidCalls, faults, visits,
                   outcome>>

\* the weekday after the one of the entry
day_Shifted == DAYS[(header.dayCols[dayIdx][1] % 7) + 1]

\* [day, dayCol] of the entry of dayCols the loop is at
day == DAYS[header.dayCols[dayIdx][1]]
dayCol == header.dayCols[dayIdx][2]

\* sessionCell.v.toString().trim()
cellContent == Trim(CellValue(worksheet, dataRow, dayCol))

\* the loop over dayCols: if (!sessionCell || !sessionCell.v) continue;
\* if (!cellContent) continue
SkipCell ==
    /\ pc = "rows"
    /\ dayIdx \in 1..Len(header.dayCols)
    /\ cellContent = <<>>
    /\ dayIdx' = dayIdx + 1
    /\ UNCHANGED <<outsideVars, workbook, pc, sheetIdx, sheetName, header,
                   dataRow, rowTime, timeslots, sessions, unparsedCells, uuidCalls,
                   faults, visits, outcome>>

\* the history record of a call of parseSessionCell
Visit(lineErrors, uuidFailAt, threw, made) ==
    [row |-> dataRow, col |-> dayCol, day |-> day, content |-> cellContent,
     time |-> rowTime, lineErrors |-> lineErrors, uuidFailAt |-> uuidFailAt,
     threw |-> threw, first |-> Len(sessions) + 1, count |-> made]

\* the number of lines parseSessionCell loops over
LineCount == Len(CellLines(cellContent))

\* try { parsedSessions = parseSessionCell(...); sessions.push(...) }
CellReturned(lineErrors, res) ==
    /\ ~res.threw
    /\ sessions' = sessions \o res.sessions
    /\ uuidCalls' = uuidCalls + Len(res.sessions)
    /\ visits' = Append(visits, Visit(lineErrors, 0, FALSE, Len(res.sessions)))

\* the loop over dayCols: parseSessionCell returns
ParseCell ==
    /\ pc = "rows"
    /\ dayIdx \in 1..Len(header.dayCols)
    /\ cellContent # <<>>
    /\ \E lineErrors \in SUBSET (1..LineCount) :
          /\ faults + Cardinality(lineErrors) <= MaxFaults
          /\ CellReturned(lineErrors,
                          parseSessionCell(cellContent, day, rowTime, lineErrors, 0,
                                           uuidCalls))
          /\ faults' = faults + Cardinality(lineErrors)
    /\ dayIdx' = dayIdx + 1
    /\ UNCHANGED <<outsideVars, workbook, pc, sheetIdx, sheetName, header,
                   dataRow, rowTime, timeslots, unparsedCells, outcome>>

\* a catch that records the 0-based position of the cell
CellThrew_ZeroBased(lineErrors, uuidFailAt, res) ==
    /\ res.threw
    /\ uuidCalls' = uuidCalls + uuidFailAt - 1
    /\ visits' = Append(visits, Visit(lineErrors, uuidFailAt, TRUE, 0))
    /\ unparsedCells' = Append(unparsedCells,
                               [row |-> dataRow, col |-> dayCol,
                                content |-> cellContent])
    /\ UNCHANGED sessions

\* catch (error) { unparsedCells.push({row: row + 1, col: dayCol + 1, content}) }
CellThrew(lineErrors, uuidFailAt, res) ==
    /\ res.threw
    /\ uuidCalls' = uuidCalls + uuidFailAt - 1
    /\ visits' = Append(visits, Visit(lineErrors, uuidFailAt, TRUE, 0))
    /\ unparsedCells' = Append(unparsedCells,
                               [row |-> dataRow + 1, col |-> dayCol + 1,
                                content |-> cellContent])
    /\ UNCHANGED sessions

\* the loop over dayCols: parseSessionCell throws
ParseCellThrows ==
    /\ pc = "rows"
    /\ dayIdx \in 1..Len(header.dayCols)
    /\ cellContent # <<>>
    /\ \E lineErrors \in SUBSET (1..LineCount), uuidFailAt \in 1..LineCount :
          /\ faults + Cardinality(lineErrors) + 1 <= MaxFaults
          /\ CellThrew(lineErrors, uuidFailAt,
                       parseSessionCell(cellContent, day, rowTime, lineErrors,
                                        uuidFailAt, uuidCalls))
          /\ faults' = faults + Cardinality(lineErrors) + 1
    /\ dayIdx' = dayIdx + 1
    /\ UNCHANGED <<outsideVars, workbook, pc, sheetIdx, sheetName, header,
                   dataRow, rowTime, timeslots, outcome>>

\* the end of the loop over dayCols: the next row
EndRow ==
    /\ pc = "rows"
    /\ dayIdx = Len(header.dayCols) + 1
    /\ dayIdx' = 0
    /\ dataRow' = dataRow + 1
    /\ UNCHANGED <<outsideVars, workbook, pc, sheetIdx, sheetName, header,
                   rowTime, timeslots, sessions, unparsedCells, uuidCalls, faults,
                   visits, outcome>>

\* a preview whose totalCells counts the rows with a usable time only
ReturnPreview_UsableRows ==
    /\ pc = "rows"
    /\ dayIdx = 0
    /\ dataRow > DecodeRange(worksheet).er
    /\ LET totalCells == Len(timeslots) * Len(header.dayCols)
           parsedCells == totalCells - Len(unparsedCells)
       IN outcome' = [kind |-> "preview",
                      sessions |-> sessions,
                      unparsedCells |-> unparsedCells,
                      metadata |-> [totalCells |-> totalCells,
                                    parsedCells |-> parsedCells,
                                    confidence |-> calculateConfidence(parsedCells,
                                                                       totalCells)]]
    /\ pc' = "returned"
    /\ UNCHANGED <<outsideVars, workbook, sheetIdx, sheetName, parseVars>>

\* a preview whose parsedCells is the number of Sessions
ReturnPreview_CountsSessions ==
    /\ pc = "rows"
    /\ dayIdx = 0
    /\ dataRow > DecodeRange(worksheet).er
    /\ LET totalCells == (DecodeRange(worksheet).er - header.headerRow)
                             * Len(header.dayCols)
           parsedCells == Len(sessions)
       IN outcome' = [kind |-> "preview",
                      sessions |-> sessions,
                      unparsedCells |-> unparsedCells,
                      metadata |-> [totalCells |-> totalCells,
                                    parsedCells |-> parsedCells,
                                    confidence |-> calculateConfidence(parsedCells,
                                                                       totalCells)]]
    /\ pc' = "returned"
    /\ UNCHANGED <<outsideVars, workbook, sheetIdx, sheetName, parseVars>>

\* after the row loop: the metadata, return the ImportPreview
ReturnPreview ==
    /\ pc = "rows"
    /\ dayIdx = 0
    /\ dataRow > DecodeRange(worksheet).er
    /\ LET totalCells == (DecodeRange(worksheet).er - header.headerRow)
                             * Len(header.dayCols)
           parsedCells == totalCells - Len(unparsedCells)
       IN outcome' = [kind |-> "preview",
                      sessions |-> sessions,
                      unparsedCells |-> unparsedCells,
                      metadata |-> [totalCells |-> totalCells,
                                    parsedCells |-> parsedCells,
                                    confidence |-> calculateConfidence(parsedCells,
                                                                       totalCells)]]
    /\ pc' = "returned"
    /\ UNCHANGED <<outsideVars, workbook, sheetIdx, sheetName, parseVars>>

\* parseExcelFile: catch (error) { ... throw new Error(...) }
Catch ==
    /\ pc = "catch"
    /\ \E platform \in Platforms :
          outcome' = [kind |-> "error",
                      message |-> CatchMessage(platform, outcome.message)]
    /\ pc' = "threw"
    /\ UNCHANGED <<outsideVars, workbook, sheetIdx, sheetName, parseVars>>

Next ==
    \/ FindSheetReturn
    \/ FindSheetNext
    \/ FindSheetFallback
    \/ NoSheetFound
    \/ HeaderFound
    \/ HeaderMissing
    \/ SkipRow
    \/ BeginRow
    \/ SkipCell
    \/ ParseCell
    \/ ParseCellThrows
    \/ EndRow
    \/ ReturnPreview
    \/ Catch

Spec == Init /\ [][Next]_vars

(***************************************************************************)
(* Two calls of parseExcelFile that overlap in time.  Each call has its    *)
(* own workbook and its own locals (the arrays and counters parseWorksheet *)
(* and parseSessionCell declare); the class has no field but the readonly  *)
(* DAYS and TIME_PATTERNS.  What the calls share is uuidv4.  The variables *)
(* of the pipeline hold the locals of the call that runs, suspended those  *)
(* of the other, and Switch hands the processor over.  The code yields     *)
(* only while it awaits the bytes of the file; Switch is allowed between   *)
(* any two steps, which covers those schedules.                            *)
(***************************************************************************)
\* the locals of the call that runs
Locals ==
    [workbook |-> workbook, pc |-> pc, sheetIdx |-> sheetIdx,
     sheetName |-> sheetName, header |-> header, dataRow |-> dataRow,
     dayIdx |-> dayIdx, rowTime |-> rowTime, timeslots |-> timeslots,
     sessions |-> sessions, unparsedCells |-> unparsedCells, visits |-> visits,
     outcome |-> outcome]

\* the locals of a call after XLSX.read
FreshCall(wb) ==
    [workbook |-> wb, pc |-> "findSheet", sheetIdx |-> 1, sheetName |-> Undefined,
     header |-> NoHeader, dataRow |-> 0, dayIdx |-> 0, rowTime |-> Null,
     timeslots |-> <<>>, sessions |-> <<>>, unparsedCells |-> <<>>,
     visits |-> <<>>, outcome |-> Pending]

\* a hand-over that leaves the array sessions in place, as for an array
\* that the class holds and the calls share
Switch_SharedSessions ==
    /\ suspended # NoCall
    /\ suspended' = Locals
    /\ workbook' = suspended.workbook
    /\ pc' = suspended.pc
    /\ sheetIdx' = suspended.sheetIdx
    /\ sheetName' = suspended.sheetName
    /\ header' = suspended.header
    /\ dataRow' = suspended.dataRow
    /\ dayIdx' = suspended.dayIdx
    /\ rowTime' = suspended.rowTime
    /\ timeslots' = suspended.timeslots
    /\ unparsedCells' = suspended.unparsedCells
    /\ visits' = suspended.visits
    /\ outcome' = suspended.outcome
    /\ UNCHANGED <<timeVars, lineVars, confVars, importVars, uuidCalls, faults, sessions>>

\* the other call runs on
Switch ==
    /\ suspended # NoCall
    /\ suspended' = Locals
    /\ workbook' = suspended.workbook
    /\ pc' = suspended.pc
    /\ sheetIdx' = suspended.sheetIdx
    /\ sheetName' = suspended.sheetName
    /\ header' = suspended.header
    /\ dataRow' = suspended.dataRow
    /\ dayIdx' = suspended.dayIdx
    /\ rowTime' = suspended.rowTime
    /\ timeslots' = suspended.timeslots
    /\ sessions' = suspended.sessions
    /\ unparsedCells' = suspended.unparsedCells
    /\ visits' = suspended.visits
    /\ outcome' = suspended.outcome
    /\ UNCHANGED <<timeVars, lineVars, confVars, importVars, uuidCalls, faults>>

\* the workbooks of the two calls: no sheet, a sheet without a header, a
\* sheet that findTimetableSheet passes over, and timetables of one data row
TwoCallWorkbooks ==
    {<<>>, <<NoTimeSheet>>, <<NoTimeSheet, RepeatedDaySheet>>,
     <<SplitHeaderSheet>>, <<ShiftingHeaderSheet>>}

InitTwoCalls ==
    /\ IdleTime
    /\ IdleLine
    /\ IdleConf
    /\ IdleImport
    /\ workbook \in TwoCallWorkbooks
    /\ pc = "findSheet"
    /\ sheetIdx = 1
    /\ sheetName = Undefined
    /\ header = NoHeader
    /\ dataRow = 0
    /\ dayIdx = 0
    /\ rowTime = Null
    /\ timeslots = <<>>
    /\ sessions = <<>>
    /\ unparsedCells = <<>>
    /\ visits = <<>>
    /\ outcome = Pending
    /\ uuidCalls = 0
    /\ faults = 0
    /\ suspended \in {FreshCall(wb) : wb \in TwoCallWorkbooks}

NextTwoCalls == Next \/ Switch

SpecTwoCalls == InitTwoCalls /\ [][NextTwoCalls]_vars

(***************************************************************************)
(* normalizeTime and parseSessionLine on their own: the argument is drawn  *)
(* from a bounded set of texts and the function is applied to it           *)
(***************************************************************************)
IdleFile ==
    /\ suspended = NoCall
    /\ workbook = <<>>
    /\ pc = "idle"
    /\ sheetIdx = 1
    /\ sheetName = Undefined
    /\ header = NoHeader
    /\ dataRow = 0
    /\ dayIdx = 0
    /\ rowTime = Null
    /\ timeslots = <<>>
    /\ sessions = <<>>
    /\ unparsedCells = <<>>
    /\ uuidCalls = 0
    /\ faults = 0
    /\ visits = <<>>
    /\ outcome = Pending

\* the two digits of n < 100
TwoDigits(n) == <<DigitSeq[(n \div 10) + 1], DigitSeq[(n % 10) + 1]>>

\* the canonical texts HH:MM
CanonicalTimes == {TwoDigits(h) \o <<":">> \o TwoDigits(m) : h \in 0..23, m \in 0..59}

TimeDotted == <<"2", ".", "3", "0">>
TimeColonPm == <<"2", ":", "3", "0", " ", "P", "M">>
TimeTwentyFour == <<"1", "4", ":", "3", "0">>
TimeHourPm == <<"2", " ", "P", "M">>

ExampleTimes ==
    {TimeDotted, TimeColonPm, TimeTwentyFour, TimeHourPm, TxtNine, TxtTenThirty,
     TxtNoon, TxtLate, <<"1", "2", " ", "A", "M">>, <<"1", "2", ":", "0", "5", " ", "a", "m">>,
     <<" ", "9", ".", "1", "5", " ">>, <<"9", "h", "3", "0">>, <<"7">>, <<"2", "4">>,
     <<"1", "1", ":", "5", "9", "p", "m">>, <<"1", "3", ":", "0", "0", " ", "P", "M">>}

TimeAlphabet == {"1", "2", "9", ":", ".", " ", "P", "M"}

TimeInputs == ExampleTimes \cup CanonicalTimes \cup SeqUpTo(TimeAlphabet, MaxTimeLen)

InitTime ==
    /\ timeStr \in TimeInputs
    /\ timeResult = NotRun
    /\ IdleLine
    /\ IdleConf
    /\ IdleFile
    /\ IdleImport

NormalizeTime ==
    /\ timeResult = NotRun
    /\ timeResult' = normalizeTime(timeStr)
    /\ UNCHANGED <<timeStr, lineVars, confVars, fileVars, suspended, importVars>>

NextTime == NormalizeTime

SpecTime == InitTime /\ [][NextTime]_vars

LineFull == <<"M", "a", "t", "h", " ", "(", "L", ")", ":", " ", "(", "R", "o", "o", "m", "3", ")", " ", "D", "r", ".", " ", "S", "m", "i", "t", "h", ":", " ", "(", "G", "1", ",", "G", "2", ")">>

ExampleLines ==
    {LineFull, TxtLunch, TxtMath, TxtGroupsOnly,
     <<"L", "u", "n", "c", "h", "\t", " ", "B", "r", "e", "a", "k">>,
     <<"M", "a", "t", "h", " ", "(", "L", ")">>,
     <<"M", "a", "t", "h", ":", " ", "D", "r", ".", " ", "S", "m", "i", "t", "h", ":">>,
     <<"A", "I", " ", "(", "P", "L", "T", "F", "R", ")", ":", " ", "(", "R", "o", "o", "m", " ", "2", ")">>,
     <<"D", "B", ":", " ", "p", "r", "o", "f", ".", "L", "e", "e">>}

LineAlphabet == {"a", "L", " ", "(", ")", ":"}

LineInputs == ExampleLines \cup SeqUpTo(LineAlphabet, MaxLineLen)

InitLine ==
    /\ line \in LineInputs
    /\ lineResult = NotRunLine
    /\ IdleTime
    /\ IdleConf
    /\ IdleFile
    /\ IdleImport

ParseSessionLine ==
    /\ lineResult = NotRunLine
    /\ lineResult' = parseSessionLine(line)
    /\ UNCHANGED <<line, timeVars, confVars, fileVars, suspended, importVars>>

NextLine == ParseSessionLine

SpecLine == InitLine /\ [][NextLine]_vars

(***************************************************************************)
(* calculateLineConfidence on its own: the fields are texts of every       *)
(* length up to MaxFieldLen and group lists of up to MaxGroups groups      *)
(***************************************************************************)
MaxFieldLen == 5
MaxGroups == 2

Repeat(c, n) == [i \in 1..n |-> c]

LineConfidenceInputs ==
    [subject : {Repeat("a", n) : n \in 0..MaxFieldLen},
     type : {<<>>, <<"L">>},
     room : {<<>>, <<"3">>},
     lecturer : {Repeat("b", n) : n \in 0..MaxFieldLen},
     groups : {Repeat(<<"G", "1">>, n) : n \in 0..MaxGroups}]

InitLineConfidence ==
    /\ confArgs \in LineConfidenceInputs
    /\ confResult = NotScored
    /\ IdleTime
    /\ IdleLine
    /\ IdleFile
    /\ IdleImport

CalculateLineConfidence ==
    /\ confResult = NotScored
    /\ confResult' = calculateLineConfidence(confArgs.subject, confArgs.type,
                                             confArgs.room, confArgs.lecturer,
                                             confArgs.groups)
    /\ UNCHANGED <<confArgs, timeVars, lineVars, fileVars, suspended, importVars>>

NextLineConfidence == CalculateLineConfidence

SpecLineConfidence == InitLineConfidence /\ [][NextLineConfidence]_vars

(***************************************************************************)
(* calculateConfidence on its own, with the arguments parseWorksheet can   *)
(* pass: totalCells up to MaxCells and parsedCells = totalCells minus the  *)
(* number of unparsed cells, of which there are at most totalCells         *)
(***************************************************************************)
MaxCells == 15

ConfidenceInputs ==
    {a \in [parsed : 0..MaxCells, total : 0..MaxCells] : a.parsed <= a.total}

InitConfidence ==
    /\ confArgs \in ConfidenceInputs
    /\ confResult = NotScored
    /\ IdleTime
    /\ IdleLine
    /\ IdleFile
    /\ IdleImport

CalculateConfidence ==
    /\ confResult = NotScored
    /\ confResult' = calculateConfidence(confArgs.parsed, confArgs.total)
    /\ UNCHANGED <<confArgs, timeVars, lineVars, fileVars, suspended, importVars>>

NextConfidence == CalculateConfidence

SpecConfidence == InitConfidence /\ [][NextConfidence]_vars

(***************************************************************************)
(* ImportScreen.performImport and the storage it reads and writes.  An     *)
(* object used as a map is a function from its own property names; a       *)
(* percentage is kept in hundredths of a percent.  The time of the import  *)
(* and the file name are left out of the saved data.                       *)
(***************************************************************************)
\* among the property names every object inherits from Object.prototype
TxtConstructor == <<"c", "o", "n", "s", "t", "r", "u", "c", "t", "o", "r">>
TxtToString == <<"t", "o", "S", "t", "r", "i", "n", "g">>
ObjectPrototypeKeys == {TxtConstructor, TxtToString}

\* !!obj[key] of an object whose own values are objects: an own property,
\* or a function inherited from Object.prototype
HasTruthy(obj, key) == key \in DOMAIN obj \/ key \in ObjectPrototypeKeys

\* obj[key] = value
Put(obj, key, value) ==
    [k \in DOMAIN obj \cup {key} |-> IF k = key THEN value ELSE obj[k]]

\* s.replace(/\s+/g, '_')
RECURSIVE UnderscoreSpaces(_)
UnderscoreSpaces(s) ==
    IF s = <<>> THEN <<>>
    ELSE IF IsSpace(Head(s))
         THEN IF Len(s) > 1 /\ IsSpace(s[2])
              THEN UnderscoreSpaces(Tail(s))
              ELSE <<"_">> \o UnderscoreSpaces(Tail(s))
         ELSE <<Head(s)>> \o UnderscoreSpaces(Tail(s))

\* the subject a session creates
ZeroSubject(name) ==
    [subject_id |-> <<"s", "u", "b", "j", "e", "c", "t", "_">>
                        \o ToLowerCase(UnderscoreSpaces(name)),
     name |-> name,
     attended_classes |-> 0,
     missed_classes |-> 0,
     total_classes |-> 0,
     percentage |-> 0]

\* preview.sessions.forEach(session => { if (!subjects[...]) subjects[...] = {...} })
RECURSIVE SubjectsFrom(_, _, _)
SubjectsFrom(previewSessions, i, subjects) ==
    IF i > Len(previewSessions) THEN subjects
    ELSE SubjectsFrom(previewSessions, i + 1,
             IF HasTruthy(subjects, previewSessions[i].subject_name)
             THEN subjects
             ELSE Put(subjects, previewSessions[i].subject_name,
                      ZeroSubject(previewSessions[i].subject_name)))

\* the existing subjects that are assigned: if (mergedSubjects[name])
MergedNames(mergedSubjects, existingSubjects) ==
    {name \in DOMAIN existingSubjects : HasTruthy(mergedSubjects, name)}

\* Object.entries(existingData.subjects).forEach(...): an entry touches its
\* own name only, so the order of the entries does not matter
MergeExisting(mergedSubjects, existingSubjects) ==
    [name \in DOMAIN mergedSubjects
                \cup MergedNames(mergedSubjects, existingSubjects) |->
        IF name \in DOMAIN existingSubjects
        THEN existingSubjects[name]
        ELSE mergedSubjects[name]]

\* mergedSubjects of the merge branch
MergedSubjects(previewSessions, existingData) ==
    IF existingData # NoData
    THEN MergeExisting(SubjectsFrom(previewSessions, 1, <<>>),
                       existingData.subjects)
    ELSE SubjectsFrom(previewSessions, 1, <<>>)

\* finalData; timeslots, the sorted array of the distinct start times, is
\* kept as their set
FinalData(p, subjects) ==
    [days |-> SubSeq(DAYS, 1, 6),
     timeslots |-> {p.sessions[i].start_time : i \in 1..Len(p.sessions)},
     sessions |-> p.sessions,
     subjects |-> subjects,
     importMetadata |-> [parsedSessions |-> Len(p.sessions),
                         unparsedCells |-> Len(p.unparsedCells),
                         confidence |-> p.metadata.confidence]]

\* if (!preview) return
PerformImportNoPreview ==
    /\ importCall.pc = "start"
    /\ preview = NoPreview
    /\ importCall' = [importCall EXCEPT !.pc = "returned"]
    /\ UNCHANGED <<timeVars, lineVars, confVars, fileVars, suspended, stored,
                   preview, calls>>

\* merge: existingData = await StorageManager.loadTimetableData()
PerformImportLoad ==
    /\ importCall.pc = "start"
    /\ preview # NoPreview
    /\ importCall.merge
    /\ importCall' = [importCall EXCEPT !.pc = "loaded", !.existingData = stored]
    /\ UNCHANGED <<timeVars, lineVars, confVars, fileVars, suspended, stored,
                   preview, calls>>

\* merge: the subjects are merged and finalData is saved
PerformImportMerge ==
    /\ importCall.pc = "loaded"
    /\ stored' = FinalData(preview, MergedSubjects(preview.sessions,
                                                   importCall.existingData))
    /\ importCall' = [importCall EXCEPT !.pc = "saved"]
    /\ UNCHANGED <<timeVars, lineVars, confVars, fileVars, suspended, preview,
                   calls>>

\* fresh import: the subjects are those of the preview, finalData is saved
PerformImportFresh ==
    /\ importCall.pc = "start"
    /\ preview # NoPreview
    /\ ~importCall.merge
    /\ stored' = FinalData(preview, SubjectsFrom(preview.sessions, 1, <<>>))
    /\ importCall' = [importCall EXCEPT !.pc = "saved"]
    /\ UNCHANGED <<timeVars, lineVars, confVars, fileVars, suspended, preview,
                   calls>>

\* the most cells a generated preview is parsed from
MaxImportCells == 2

TxtAI == <<"A", "I">>
ImportCells == {TxtLunch, TxtAI, TxtMath, TxtConstructor}

\* the sessions parseSessionCell makes of the cells, left to right in a row
RECURSIVE SessionsOfCells(_, _, _)
SessionsOfCells(cells, i, made) ==
    IF i > Len(cells) THEN made
    ELSE SessionsOfCells(cells, i + 1,
             made \o parseSessionCell(cells[i], DAYS[i], normalizeTime(TxtNine),
                                      {}, 0, Len(made)).sessions)

\* the ImportPreview of a row of cells that all parse
PreviewOf(cells) ==
    [kind |-> "preview",
     sessions |-> SessionsOfCells(cells, 1, <<>>),
     unparsedCells |-> <<>>,
     metadata |-> [totalCells |-> Len(cells),
                   parsedCells |-> Len(cells),
                   confidence |-> calculateConfidence(Len(cells), Len(cells))]]

PreviewInputs == {PreviewOf(cells) : cells \in SeqUpTo(ImportCells, MaxImportCells)}

\* the counters updateAttendance has left on a subject
CountedInputs ==
    {[attended_classes |-> 0, missed_classes |-> 0, total_classes |-> 0,
      percentage |-> 0],
     [attended_classes |-> 3, missed_classes |-> 1, total_classes |-> 4,
      percentage |-> 7500]}

\* subject with the counters of counted
Counted(subject, counted) ==
    [subject EXCEPT !.attended_classes = counted.attended_classes,
                    !.missed_classes = counted.missed_classes,
                    !.total_classes = counted.total_classes,
                    !.percentage = counted.percentage]

\* the data an earlier import of p has saved, attendance updated since
StoredAfter(p) ==
    {FinalData(p, [name \in DOMAIN SubjectsFrom(p.sessions, 1, <<>>) |->
                      Counted(ZeroSubject(name), counts[name])]) :
        counts \in [DOMAIN SubjectsFrom(p.sessions, 1, <<>>) -> CountedInputs]}

StoredInputs ==
    {NoData} \cup UNION {StoredAfter(PreviewOf(cells)) :
                            cells \in SeqUpTo({TxtLunch, TxtAI}, MaxImportCells)}

\* confirmImport offers the merge when there are stored sessions
InitImport ==
    /\ IdleTime
    /\ IdleLine
    /\ IdleConf
    /\ IdleFile
    /\ stored \in StoredInputs
    /\ preview \in PreviewInputs \cup {NoPreview}
    /\ calls = <<>>
    /\ \E merge \in BOOLEAN :
          /\ merge => stored # NoData /\ stored.sessions # <<>>
          /\ importCall = [pc |-> "start", merge |-> merge, existingData |-> NoData]

NextImport ==
    \/ PerformImportNoPreview
    \/ PerformImportLoad
    \/ PerformImportMerge
    \/ PerformImportFresh

SpecImport == InitImport /\ [][NextImport]_vars

(***************************************************************************)
(* StorageManager.markSessionAttendance and updateAttendance.  A call      *)
(* loads the data, changes its copy and saves it; other calls run between  *)
(* the load and the save.  A call whose subject lookup finds a property    *)
(* inherited from Object.prototype changes that function and not the data. *)
(***************************************************************************)
TxtPresent == <<"p", "r", "e", "s", "e", "n", "t">>
TxtAbsent == <<"a", "b", "s", "e", "n", "t">>
TxtOff == <<"o", "f", "f">>

\* subject.total_classes > 0 ? Math.round((attended / total) * 10000) / 100 : 0,
\* in hundredths of a percent; Math.round rounds a half upwards
Percentage(attended, total) ==
    IF total > 0 THEN (20000 * attended + total) \div (2 * total) ELSE 0

\* the subject with the counters attended, missed and total
Recounted(subject, attended, missed, total) ==
    [subject EXCEPT !.attended_classes = attended,
                    !.missed_classes = missed,
                    !.total_classes = total,
                    !.percentage = Percentage(attended, total)]

\* the change of a counter: one less if the old status counted for it, one
\* more if the new status does
Moved(counter, counted, oldStatus, status) ==
    counter - (IF oldStatus = counted THEN 1 ELSE 0)
            + (IF status = counted THEN 1 ELSE 0)

\* a subject after a session of it went from oldStatus to status
MarkedSubject(subject, oldStatus, status) ==
    Recounted(subject,
              Moved(subject.attended_classes, TxtPresent, oldStatus, status),
              Moved(subject.missed_classes, TxtAbsent, oldStatus, status),
              Moved(subject.attended_classes, TxtPresent, oldStatus, status)
                  + Moved(subject.missed_classes, TxtAbsent, oldStatus, status))

\* data.sessions.find(s => s.id === sessionId): its position, 0 if none
FindSession(data, sessionId) ==
    IF \E i \in 1..Len(data.sessions) : data.sessions[i].id = sessionId
    THEN CHOOSE i \in 1..Len(data.sessions) :
             /\ data.sessions[i].id = sessionId
             /\ \A j \in 1..(i - 1) : data.sessions[j].id # sessionId
    ELSE 0

\* data after session.attendance_marked = status and the update of the
\* counters of its subject, i the position of the session
MarkedData(data, i, status) ==
    [data EXCEPT
        !.sessions[i].attendance_marked = status,
        !.subjects = IF data.sessions[i].subject_name \in DOMAIN data.subjects
                     THEN [data.subjects EXCEPT
                              ![data.sessions[i].subject_name] =
                                  MarkedSubject(@, data.sessions[i].attendance_marked,
                                                status)]
                     ELSE data.subjects]

\* subject_id of a subject updateAttendance creates: `subject_${Date.now()}`,
\* the time left open
NewSubject(name) ==
    [ZeroSubject(name) EXCEPT
        !.subject_id = <<"s", "u", "b", "j", "e", "c", "t", "_", "n", "o", "w">>]

\* data.subjects after if (!data.subjects[subjectName]) { ... }
WithSubject(subjects, name) ==
    IF HasTruthy(subjects, name) THEN subjects
    ELSE Put(subjects, name, NewSubject(name))

\* data after updateAttendance has set the counters of the subject
UpdatedData(data, name, attended, missed, total) ==
    [data EXCEPT
        !.subjects = IF name \in DOMAIN WithSubject(data.subjects, name)
                     THEN [WithSubject(data.subjects, name) EXCEPT
                              ![name] = Recounted(@, attended, missed, total)]
                     ELSE data.subjects]

\* a call: done calls remember the calls that were done when they loaded
MarkCall(sessionId, status, data, done) ==
    [op |-> "mark", sessionId |-> sessionId, status |-> status, name |-> <<>>,
     attended |-> 0, missed |-> 0, total |-> 0,
     pc |-> IF data = NoData \/ FindSession(data, sessionId) = 0
            THEN "returned" ELSE "loaded",
     data |-> data, before |-> done]

UpdateCall(name, attended, missed, total, data, done) ==
    [op |-> "update", sessionId |-> 0, status |-> Null, name |-> name,
     attended |-> attended, missed |-> missed, total |-> total,
     pc |-> IF data = NoData THEN "returned" ELSE "loaded",
     data |-> data, before |-> done]

\* the calls that have returned
Done == {c \in 1..Len(calls) : calls[c].pc \in {"returned", "saved"}}

\* the most calls of a run
MaxCalls == 3
\* the largest counter the subject editor passes
MaxCount == 1

Statuses == {TxtPresent, TxtAbsent, TxtOff, Null}
SessionIds == 1..3

\* markSessionAttendance up to its first await: const data = await
\* this.loadTimetableData(); if (!data) return; if (!session) return
MarkLoad ==
    /\ Len(calls) < MaxCalls
    /\ \E sessionId \in SessionIds, status \in Statuses :
          calls' = Append(calls, MarkCall(sessionId, status, stored, Done))
    /\ UNCHANGED <<timeVars, lineVars, confVars, fileVars, suspended, stored,
                   preview, importCall>>

\* markSessionAttendance from the load on: the session and its subject are
\* changed and await this.saveTimetableData(data)
MarkSave ==
    /\ \E c \in 1..Len(calls) :
          /\ calls[c].op = "mark"
          /\ calls[c].pc = "loaded"
          /\ stored' = MarkedData(calls[c].data,
                                  FindSession(calls[c].data, calls[c].sessionId),
                                  calls[c].status)
          /\ calls' = [calls EXCEPT ![c].pc = "saved", ![c].data = NoData]
    /\ UNCHANGED <<timeVars, lineVars, confVars, fileVars, suspended, preview,
                   importCall>>

\* updateAttendance up to its first await; total is attended + missed when
\* the argument is left out
UpdateLoad ==
    /\ Len(calls) < MaxCalls
    /\ \E name \in {TxtAI, TxtLunch}, attended \in 0..MaxCount, missed \in 0..MaxCount :
          \E total \in {attended + missed, attended + missed + 1} :
              calls' = Append(calls, UpdateCall(name, attended, missed, total,
                                                stored, Done))
    /\ UNCHANGED <<timeVars, lineVars, confVars, fileVars, suspended, stored,
                   preview, importCall>>

\* updateAttendance from the load on
UpdateSave ==
    /\ \E c \in 1..Len(calls) :
          /\ calls[c].op = "update"
          /\ calls[c].pc = "loaded"
          /\ stored' = UpdatedData(calls[c].data, calls[c].name, calls[c].attended,
                                   calls[c].missed, calls[c].total)
          /\ calls' = [calls EXCEPT ![c].pc = "saved", ![c].data = NoData]
    /\ UNCHANGED <<timeVars, lineVars, confVars, fileVars, suspended, preview,
                   importCall>>

\* the data a fresh import of a row of cells has saved
FreshData(cells) ==
    FinalData(PreviewOf(cells), SubjectsFrom(PreviewOf(cells).sessions, 1, <<>>))

\* nothing stored, two sessions of two subjects, two sessions of one subject
StorageInputs == {NoData, FreshData(<<TxtAI, TxtLunch>>), FreshData(<<TxtAI, TxtAI>>)}

InitStorage ==
    /\ IdleTime
    /\ IdleLine
    /\ IdleConf
    /\ IdleFile
    /\ stored \in StorageInputs
    /\ preview = NoPreview
    /\ importCall = NoImport
    /\ calls = <<>>

NextStorage ==
    \/ MarkLoad
    \/ MarkSave
    \/ UpdateLoad
    \/ UpdateSave

SpecStorage == InitStorage /\ [][NextStorage]_vars

(***************************************************************************)
(* Properties                                                              *)
(***************************************************************************)
\* s is a canonical 24-hour time HH:MM
IsCanonicalTime(s) ==
    /\ Len(s) = 5
    /\ s[3] = ":"
    /\ \A i \in {1, 2, 4, 5} : IsDigit(s[i])
    /\ 10 * DigitVal(s[1]) + DigitVal(s[2]) <= 23
    /\ 10 * DigitVal(s[4]) + DigitVal(s[5]) <= 59

\* C1: parseSessionLine("Math (L): (Room3) Dr. Smith: (G1,G2)") is subject
\* "Math", type "L", room "Room3", lecturer "Dr. Smith", groups G1 and G2,
\* confidence high.
C1_FullLineParsed ==
    (line = LineFull /\ lineResult # NotRunLine) =>
        /\ lineResult # NullLine
        /\ lineResult.subject_name = <<"M", "a", "t", "h">>
        /\ lineResult.session_type = <<"L">>
        /\ lineResult.room_or_code = <<"R", "o", "o", "m", "3">>
        /\ lineResult.lecturer = <<"D", "r", ".", " ", "S", "m", "i", "t", "h">>
        /\ lineResult.groups = <<<<"G", "1">>, <<"G", "2">>>>
        /\ lineResult.confidence = "high"

\* C2: normalizeTime maps "2.30", "2:30 PM", "14:30" and "2 PM" to "02:30",
\* "14:30", "14:30" and "14:00".
C2_ExampleTimes ==
    timeResult # NotRun =>
        /\ (timeStr = TimeDotted => timeResult = <<"0", "2", ":", "3", "0">>)
        /\ (timeStr = TimeColonPm => timeResult = <<"1", "4", ":", "3", "0">>)
        /\ (timeStr = TimeTwentyFour => timeResult = <<"1", "4", ":", "3", "0">>)
        /\ (timeStr = TimeHourPm => timeResult = <<"1", "4", ":", "0", "0">>)

\* C3: normalizeTime gives null or a canonical HH:MM for the time cell of every
\* row, so that the start_time of every Session is canonical.
C3_CanonicalStartTimes ==
    /\ (rowTime = Null \/ IsCanonicalTime(rowTime))
    /\ \A i \in 1..Len(sessions) : IsCanonicalTime(sessions[i].start_time)

\* C9: normalizeTime returns a canonical HH:MM text unchanged.
C9_CanonicalUnchanged ==
    (IsCanonicalTime(timeStr) /\ timeResult # NotRun) => timeResult = timeStr

C9_Witness ==
    /\ timeStr = <<"0", "9", ":", "0", "5">>
    /\ timeResult = <<"0", "9", ":", "0", "5">>

\* a line without colon and parentheses
NoColonNoParen(l) == \A i \in 1..Len(l) : l[i] \notin {":", "(", ")"}

\* the words of a text: its maximal runs of characters that are no white space
RECURSIVE WordsOf(_)
WordsOf(l) ==
    IF l = <<>> THEN <<>>
    ELSE IF IsSpace(Head(l)) THEN WordsOf(Tail(l))
    ELSE LET n == CHOOSE k \in 1..Len(l) :
                      /\ \A i \in 1..k : ~IsSpace(l[i])
                      /\ (k < Len(l) => IsSpace(l[k + 1]))
         IN <<SubSeq(l, 1, n)>> \o WordsOf(SubSeq(l, n + 1, Len(l)))

\* the words, one space between two
RECURSIVE JoinWithSpace(_)
JoinWithSpace(words) ==
    IF words = <<>> THEN <<>>
    ELSE IF Len(words) = 1 THEN words[1]
    ELSE words[1] \o <<" ">> \o JoinWithSpace(Tail(words))

\* the fields of a line that is a subject and nothing else
OnlySubject(res, subject) ==
    /\ res # NullLine
    /\ res.subject_name = subject
    /\ res.session_type = <<>>
    /\ res.room_or_code = <<>>
    /\ res.lecturer = <<>>
    /\ res.groups = <<>>
    /\ res.confidence = "low"

\* C10 as stated: for a non-empty trimmed line without colon and parentheses,
\* parseSessionLine returns the whole line as subject_name, the other fields
\* empty and confidence low.
C10_WholeLineIsSubject ==
    (/\ lineResult # NotRunLine
     /\ line # <<>>
     /\ Trim(line) = line
     /\ NoColonNoParen(line)) => OnlySubject(lineResult, line)

\* C10 amended: for a non-blank line without colon and parentheses,
\* parseSessionLine returns as subject_name the words of the line with one space
\* between two (the line trimmed, each run of white space collapsed), the other
\* fields empty and confidence low.
C10_SingleSpacedLineIsSubject ==
    (/\ lineResult # NotRunLine
     /\ ~AllSpace(line)
     /\ NoColonNoParen(line)) => OnlySubject(lineResult, JoinWithSpace(WordsOf(line)))

C10_Witness ==
    /\ line = <<"L", "u", "n", "c", "h", "\t", " ", "B", "r", "e", "a", "k">>
    /\ lineResult # NotRunLine
    /\ lineResult # NullLine
    /\ lineResult.subject_name = TxtLunch
    /\ lineResult.confidence = "low"

\* the cell at <<r, c>> holds a text that says time / names a weekday
HoldsTime(sheet, r, c) ==
    /\ <<r, c>> \in DOMAIN sheet.cells
    /\ sheet.cells[<<r, c>>] # <<>>
    /\ Includes(Trim(ToLowerCase(sheet.cells[<<r, c>>])), <<"t", "i", "m", "e">>)

HoldsDay(sheet, r, c, d) ==
    /\ <<r, c>> \in DOMAIN sheet.cells
    /\ sheet.cells[<<r, c>>] # <<>>
    /\ Includes(Trim(ToLowerCase(sheet.cells[<<r, c>>])), ToLowerCase(DAYS[d]))

\* the scan window of findTimetableSheet: the first 11 rows and columns
WindowRows(sheet) ==
    {r \in DecodeRange(sheet).sr..DecodeRange(sheet).er : r <= DecodeRange(sheet).sr + 10}
WindowCols(sheet) ==
    {c \in DecodeRange(sheet).sc..DecodeRange(sheet).ec : c <= DecodeRange(sheet).sc + 10}

\* one row of the window holds a time cell and three cells that name a weekday
QualifiesByRow(sheet) ==
    \E r \in WindowRows(sheet) :
        /\ \E c \in WindowCols(sheet) : HoldsTime(sheet, r, c)
        /\ Cardinality({c \in WindowCols(sheet) :
                           \E d \in 1..7 : HoldsDay(sheet, r, c, d)}) >= 3

\* the window holds a time cell and cells that name three distinct weekdays
QualifiesByWindow(sheet) ==
    /\ \E r \in WindowRows(sheet), c \in WindowCols(sheet) : HoldsTime(sheet, r, c)
    /\ Cardinality({d \in 1..7 :
                       \E r \in WindowRows(sheet), c \in WindowCols(sheet) :
                           HoldsDay(sheet, r, c, d)}) >= 3

\* C4: for a workbook with a sheet, findTimetableSheet returns the name of the
\* first sheet in workbook order that qualifies, the name of the first sheet if
\* none does, and never fails or returns no name.
C4_FirstQualifyingSheet ==
    (pc # "findSheet" /\ Len(workbook) >= 1) =>
        /\ sheetName # Undefined
        /\ outcome.kind \in {"raised", "error"} =>
               ~Includes(outcome.message, NoSheetMessage)
        /\ IF \E i \in 1..Len(workbook) : QualifiesByRow(workbook[i])
           THEN /\ QualifiesByRow(SheetOf(workbook, sheetName))
                /\ \A j \in 1..Len(workbook) :
                       SheetName(j) = sheetName =>
                           \A i \in 1..(j - 1) : ~QualifiesByRow(workbook[i])
           ELSE sheetName = SheetName(1)

C4_Witness ==
    /\ pc = "parseWorksheet"
    /\ Len(workbook) = 3
    /\ sheetName = SheetName(2)
    /\ ~QualifiesByRow(workbook[1])
    /\ QualifiesByRow(workbook[2])

\* what findTimetableSheet has decided so far: the sheets before the one it is
\* at did not qualify, the sheet it returned from inside the loop did
DecidedAs(Qualifies(_)) ==
    \A j \in 1..Len(workbook) :
        /\ j < sheetIdx => ~Qualifies(workbook[j])
        /\ (j = sheetIdx /\ pc # "findSheet") => Qualifies(workbook[j])

\* C5 as stated: a sheet qualifies in findTimetableSheet if and only if its scan
\* window holds a non-empty cell that says time and cells that match at least 3
\* distinct weekday names.
C5_QualifiesByWindow == DecidedAs(QualifiesByWindow)

\* C5 amended: a sheet qualifies in findTimetableSheet if and only if one row of
\* its scan window holds a non-empty cell that says time and at least 3 cells
\* that name a weekday (cells of that row, not distinct weekdays).
C5_QualifiesByRow == DecidedAs(QualifiesByRow)

C5_Witness ==
    /\ pc = "parseWorksheet"
    /\ Len(workbook) = 3
    /\ sheetIdx = 3
    /\ workbook[1] = SplitHeaderSheet
    /\ workbook[3] = RepeatedDaySheet

\* a cell of the rows the header scan of parseWorksheet reads says time
HeaderScanSeesTime(sheet) ==
    \E r \in WindowRows(sheet), c \in DecodeRange(sheet).sc..DecodeRange(sheet).ec :
        HoldsTime(sheet, r, c)

\* C6: parseWorksheet fails with the structure error exactly when no cell of
\* the scanned header rows says time; then no ImportPreview is returned and the
\* Error the caller of parseExcelFile gets still names the Time column and the
\* weekday headers.
C6_StructureError ==
    (pc \in {"rows", "catch", "returned", "threw"} /\ sheetName # Undefined) =>
        /\ pc \in {"catch", "threw"} <=> ~HeaderScanSeesTime(worksheet)
        /\ pc = "catch" =>
               outcome = [kind |-> "raised", message |-> StructureMessage]
        /\ pc = "threw" =>
               /\ outcome.kind = "error"
               /\ Includes(outcome.message, <<"C", "o", "u", "l", "d", " ", "n", "o", "t", " ", "f", "i", "n", "d", " ", "t", "i", "m", "e", "t", "a", "b", "l", "e", " ", "s", "t", "r", "u", "c", "t", "u", "r", "e">>)
               /\ Includes(outcome.message, <<"\"", "T", "i", "m", "e", "\"", " ", "c", "o", "l", "u", "m", "n">>)
               /\ Includes(outcome.message, <<"w", "e", "e", "k", "d", "a", "y", " ", "h", "e", "a", "d", "e", "r", "s">>)
        /\ pc = "returned" => outcome.kind = "preview"

C6_Witness ==
    /\ pc = "threw"
    /\ Len(workbook) = 2
    /\ sheetName = SheetName(1)
    /\ worksheet = LateHeaderSheet
    /\ outcome.kind = "error"

\* the lines of the cell of visit v that give a Session: no internal error and
\* a parse that is not null
KeptLines(v) ==
    {i \in 1..Len(CellLines(v.content)) :
        /\ i \notin v.lineErrors
        /\ parseSessionLine(Trim(CellLines(v.content)[i])) # NullLine}

\* the k-th of them
KeptAt(v, k) ==
    CHOOSE i \in KeptLines(v) : Cardinality({j \in KeptLines(v) : j <= i}) = k

\* the Session that line i of the cell of visit v gives, but for its id
SessionOfLine(id, v, i) ==
    NewSession(id, v.day, v.time, parseSessionLine(Trim(CellLines(v.content)[i])))

\* sessions from position `from` on are the Sessions of the visits from `k` on,
\* those of a call that threw being none
RECURSIVE SessionsAre(_, _)
SessionsAre(k, from) ==
    IF k > Len(visits) THEN from = Len(sessions) + 1
    ELSE IF visits[k].threw THEN SessionsAre(k + 1, from)
    ELSE /\ from + Cardinality(KeptLines(visits[k])) - 1 <= Len(sessions)
         /\ \A n \in 1..Cardinality(KeptLines(visits[k])) :
                sessions[from + n - 1] =
                    SessionOfLine(sessions[from + n - 1].id, visits[k],
                                  KeptAt(visits[k], n))
         /\ SessionsAre(k + 1, from + Cardinality(KeptLines(visits[k])))

IsThrown(v) == v.threw

\* one UnparsedCell per call that threw, in their order, with the 1-based
\* position and the trimmed text of the cell
UnparsedAreThrown ==
    /\ Len(unparsedCells) = Len(SelectSeq(visits, IsThrown))
    /\ \A k \in 1..Len(unparsedCells) :
           unparsedCells[k] =
               [row |-> SelectSeq(visits, IsThrown)[k].row + 1,
                col |-> SelectSeq(visits, IsThrown)[k].col + 1,
                content |-> Trim(worksheet.cells[<<SelectSeq(visits, IsThrown)[k].row,
                                                  SelectSeq(visits, IsThrown)[k].col>>])]

\* C7 as stated: a cell whose parse throws outside the line parser gives exactly
\* one UnparsedCell, at its 1-based position and with its trimmed text, and no
\* Session at all; every other cell is processed as without the failure.
C7_FailedCellGivesNothing ==
    pc \in {"rows", "returned"} =>
        /\ UnparsedAreThrown
        /\ SessionsAre(1, 1)
        /\ \A i \in 1..Len(visits) :
               visits[i].threw =>
                   /\ Cardinality({k \in 1..Len(unparsedCells) :
                                      /\ unparsedCells[k].row = visits[i].row + 1
                                      /\ unparsedCells[k].col = visits[i].col + 1}) = 1
                   /\ \A j \in 1..Len(visits) :
                          (visits[j].row = visits[i].row /\ visits[j].col = visits[i].col)
                              => visits[j].count = 0

\* C7 amended: each parse of a cell (one per weekday mapped to its column) that
\* throws outside the line parser gives exactly one UnparsedCell, at the 1-based
\* position and with the trimmed text of the cell, and no Session; every other
\* parse, of this cell for another weekday or of another cell, gives the
\* Sessions it gives without the failure.
C7_FailedParseGivesNothing ==
    pc \in {"rows", "returned"} =>
        /\ UnparsedAreThrown
        /\ SessionsAre(1, 1)

C7_Witness ==
    /\ pc = "returned"
    /\ \E i \in 1..Len(visits) :
           /\ visits[i].threw
           /\ visits[i].uuidFailAt = 2
           /\ \E j \in (i + 1)..Len(visits) : visits[j].count > 0
    /\ Len(outcome.unparsedCells) = 1
    /\ Len(outcome.sessions) > 0

\* C8: a line for which parseSessionLine returns null, for an empty subject or
\* an internal error, adds no Session and no UnparsedCell and does not make the
\* cell fail; every other line of the cell gives its Session.
C8_NullLineDropped ==
    /\ pc \in {"rows", "returned"} =>
           /\ Len(unparsedCells) = Cardinality({i \in 1..Len(visits) :
                                                   visits[i].uuidFailAt # 0})
           /\ \A i \in 1..Len(visits) :
                  ~visits[i].threw =>
                      /\ visits[i].count = Cardinality(KeptLines(visits[i]))
                      /\ visits[i].first + visits[i].count - 1 <= Len(sessions)
                      /\ \A n \in 1..visits[i].count :
                             sessions[visits[i].first + n - 1].subject_name =
                                 parseSessionLine(Trim(CellLines(visits[i].content)[
                                     KeptAt(visits[i], n)])).subject_name
    /\ (pc = "rows" /\ dayIdx \in 1..Len(header.dayCols) /\ cellContent # <<>>) =>
           \A lineErrors \in SUBSET (1..LineCount) :
               ~parseSessionCell(cellContent, day, rowTime, lineErrors, 0,
                                 uuidCalls).threw

C8_Witness ==
    /\ pc = "returned"
    /\ outcome.unparsedCells = <<>>
    /\ \E i \in 1..Len(visits) :
           /\ visits[i].content = TxtThreeLines
           /\ visits[i].lineErrors = {1}
           /\ visits[i].count = 1
           /\ outcome.sessions[visits[i].first].subject_name = <<"P", "E">>

\* the three levels of a confidence
Levels == {"high", "medium", "low"}

\* the score the line confidence is said to come from
LineScore(a) ==
    (IF Len(a.subject) > 3 THEN 2 ELSE 0) + (IF Len(a.type) > 0 THEN 1 ELSE 0)
    + (IF Len(a.room) > 0 THEN 1 ELSE 0) + (IF Len(a.lecturer) > 3 THEN 1 ELSE 0)
    + (IF Len(a.groups) > 0 THEN 1 ELSE 0)

\* C11: the line confidence is one of the three levels: high when the score
\* 2 (subject longer than 3) + 1 (type non-empty) + 1 (room non-empty)
\* + 1 (lecturer longer than 3) + 1 (groups non-empty) is at least 5, medium
\* when it is at least 3, low otherwise.
C11_LineConfidence ==
    confResult # NotScored =>
        /\ confResult \in Levels
        /\ confResult = "high" <=> LineScore(confArgs) >= 5
        /\ confResult = "medium" <=> LineScore(confArgs) \in 3..4
        /\ confResult = "low" <=> LineScore(confArgs) < 3

C11_Witness ==
    /\ confResult = "high"
    /\ confArgs.groups = <<>>
    /\ Len(confArgs.subject) = 4
    /\ Len(confArgs.lecturer) = 4

\* C12: the aggregate confidence is high when parsedCells / max(totalCells, 1)
\* is at least 0.8, medium when it is at least 0.6, low otherwise; the divisor
\* is never 0, and totalCells = 0 gives low.
C12_AggregateConfidence ==
    confResult # NotScored =>
        LET divisor == IF confArgs.total > 1 THEN confArgs.total ELSE 1
        IN /\ divisor # 0
           /\ confResult \in Levels
           /\ confResult = "high" <=> 10 * confArgs.parsed >= 8 * divisor
           /\ confResult = "medium" <=>
                  /\ 10 * confArgs.parsed < 8 * divisor
                  /\ 10 * confArgs.parsed >= 6 * divisor
           /\ confArgs.total = 0 => confResult = "low"

C12_Witness ==
    /\ confResult = "low"
    /\ confArgs.total = 0

\* C13: every Session of a run has an identifier uuidv4 handed out in this
\* run, and no two Sessions of the run or of the ImportPreview it returns
\* share one, be they of one cell or of one cell read for two weekdays.
C13_UniqueIds ==
    /\ \A i \in 1..Len(sessions) :
           /\ sessions[i].id \in 1..uuidCalls
           /\ \A j \in 1..Len(sessions) :
                  i # j => sessions[i].id # sessions[j].id
    /\ outcome.kind = "preview" =>
           \A i, j \in 1..Len(outcome.sessions) :
               i # j => outcome.sessions[i].id # outcome.sessions[j].id

C13_Witness ==
    /\ pc = "returned"
    /\ outcome.kind = "preview"
    /\ \E i \in 1..Len(visits) : visits[i].count >= 2
    /\ \E i, j \in 1..Len(visits) :
           /\ i # j
           /\ visits[i].row = visits[j].row /\ visits[i].col = visits[j].col
           /\ visits[i].count > 0 /\ visits[j].count > 0

\* C14: the day of every Session is one of the seven names of DAYS, and it is
\* the weekday of the entry of dayCols through which the cell of the Session
\* was read: that weekday is mapped to the column of the cell, and a cell is
\* read once for each weekday mapped to its column.
C14_DayOfMappedColumn ==
    pc \in {"rows", "returned"} =>
        /\ \A k \in 1..Len(sessions) :
               \E i \in 1..Len(visits), d \in 1..7 :
                   /\ ~visits[i].threw
                   /\ k \in visits[i].first..(visits[i].first + visits[i].count - 1)
                   /\ sessions[k].day = DAYS[d]
                   /\ \E e \in 1..Len(header.dayCols) :
                          header.dayCols[e] = <<d, visits[i].col>>
                   /\ \E r \in WindowRows(worksheet) :
                          HoldsDay(worksheet, r, visits[i].col, d)
        /\ \A i, j \in 1..Len(visits) :
               (i # j /\ visits[i].row = visits[j].row /\ visits[i].col = visits[j].col)
                   => visits[i].day # visits[j].day

C14_Witness ==
    /\ pc = "returned"
    /\ \E k, l \in 1..Len(outcome.sessions) :
           /\ outcome.sessions[k].day = DAYS[1]
           /\ outcome.sessions[l].day = DAYS[2]
           /\ \E i, j \in 1..Len(visits) :
                  /\ visits[i].first = k /\ visits[j].first = l
                  /\ visits[i].count > 0 /\ visits[j].count > 0
                  /\ visits[i].row = visits[j].row /\ visits[i].col = visits[j].col

\* the fields parseSessionCell sets to fixed values
FixedFields(session) ==
    /\ session.duration_slots = 1
    /\ session.notes = <<>>
    /\ session.attendance_marked = Null

\* C15: every Session the parser creates has duration_slots 1, empty notes and
\* attendance_marked null, in the run and in the ImportPreview it returns.
C15_FixedFields ==
    /\ \A i \in 1..Len(sessions) : FixedFields(sessions[i])
    /\ outcome.kind = "preview" =>
           \A i \in 1..Len(outcome.sessions) : FixedFields(outcome.sessions[i])

C15_Witness ==
    /\ pc = "returned"
    /\ outcome.kind = "preview"
    /\ Len(outcome.sessions) >= 4
    /\ outcome.unparsedCells # <<>>

\* s is a text of a 12-hour form whose hour has h digits: H:MM AM|PM when
\* withMinutes, H AM|PM otherwise, in either case of the letters
IsTwelveHour(s, h, withMinutes) ==
    LET rest == IF withMinutes THEN h + 4 ELSE h + 1
    IN /\ Len(s) >= rest + 1
       /\ \A i \in 1..h : s[i] \in Digits
       /\ withMinutes => s[h + 1] = ":" /\ s[h + 2] \in Digits /\ s[h + 3] \in Digits
       /\ \A i \in rest..(Len(s) - 2) : s[i] \in WhiteSpace
       /\ s[Len(s) - 1] \in {"A", "a", "P", "p"}
       /\ s[Len(s)] \in {"M", "m"}

\* the text the 12-hour conversion gives for it
TwelveHourTime(s, h, withMinutes) ==
    LET hour == DigitsValue(SubSeq(s, 1, h))
        pm == s[Len(s) - 1] \in {"P", "p"}
        hours == IF pm /\ hour # 12 THEN hour + 12
                 ELSE IF ~pm /\ hour = 12 THEN 0
                 ELSE hour
    IN (IF hours < 10 THEN <<"0">> ELSE <<>>) \o NatToString(hours) \o <<":">>
       \o (IF withMinutes THEN SubSeq(s, h + 2, h + 3) ELSE <<"0", "0">>)

\* C19: for a time text of a 12-hour form, H:MM AM|PM or H AM|PM, normalizeTime
\* gives the hour converted (PM and hour not 12: hour + 12; AM and hour 12: 0;
\* else the hour) and the minutes MM, or 00 when the text has none.
C19_TwelveHourConversion ==
    timeResult # NotRun =>
        \A h \in 1..2, withMinutes \in BOOLEAN :
            IsTwelveHour(timeStr, h, withMinutes) =>
                timeResult = TwelveHourTime(timeStr, h, withMinutes)

\* its case with minutes, which normalizeTime converts
C19_WithMinutesConverted ==
    timeResult # NotRun =>
        \A h \in 1..2 :
            IsTwelveHour(timeStr, h, TRUE) =>
                timeResult = TwelveHourTime(timeStr, h, TRUE)

C19_Witness ==
    /\ timeStr = <<"1", "2", " ", "A", "M">>
    /\ timeResult = <<"1", "2", ":", "N", "a", "N">>

\* the columns the header scan of parseWorksheet reads in a row
ScanColumns(sheet) == DecodeRange(sheet).sc..DecodeRange(sheet).ec

\* at the end of row r a cell read so far says time and the cells read so
\* far name at least 3 weekdays
StopsAfter(sheet, r) ==
    /\ \E q \in WindowRows(sheet), c \in ScanColumns(sheet) :
           q <= r /\ HoldsTime(sheet, q, c)
    /\ Cardinality({d \in 1..7 :
                       \E q \in WindowRows(sheet), c \in ScanColumns(sheet) :
                           q <= r /\ HoldsDay(sheet, q, c, d)}) >= 3

\* the rows the scan reads: those up to the first row after which it stops
ScannedRows(sheet) ==
    LET stops == {r \in WindowRows(sheet) : StopsAfter(sheet, r)}
    IN {r \in WindowRows(sheet) : \A q \in stops : r <= q}

\* position p comes after position q in the order of the scan
After(p, q) == p[1] > q[1] \/ (p[1] = q[1] /\ p[2] > q[2])

\* the last of a non-empty set of positions
LastOf(positions) == CHOOSE p \in positions : \A q \in positions : p = q \/ After(p, q)

\* the cells of the rows `rows` that say time, that name weekday d
TimeCells(sheet, rows) ==
    {p \in rows \X ScanColumns(sheet) : HoldsTime(sheet, p[1], p[2])}

DayCells(sheet, rows, d) ==
    {p \in rows \X ScanColumns(sheet) : HoldsDay(sheet, p[1], p[2], d)}

\* st is what a last-match-wins scan of the rows `rows` finds
LastMatches(st, sheet, rows) ==
    /\ LET times == TimeCells(sheet, rows)
       IN IF times = {}
          THEN st.headerRow = -1 /\ st.timeCol = -1
          ELSE <<st.headerRow, st.timeCol>> = LastOf(times)
    /\ \A d \in 1..7 :
           LET cells == DayCells(sheet, rows, d)
           IN IF cells = {}
              THEN ~HasKey(st.dayCols, d)
              ELSE \E e \in 1..Len(st.dayCols) :
                      st.dayCols[e] = <<d, LastOf(cells)[2]>>
    /\ \A e, f \in 1..Len(st.dayCols) :
           e # f => st.dayCols[e][1] # st.dayCols[f][1]

\* C20: the header scan reads the rows top-down up to the first row at whose
\* end a header row is set and at least 3 weekdays are mapped; headerRow and
\* timeCol are the position of the last cell it read that says time, and the
\* column of a weekday is the column of the last cell it read that names it.
C20_LastMatchWins ==
    (pc \in {"rows", "returned", "catch", "threw"} /\ sheetName # Undefined) =>
        LastMatches(header, worksheet, ScannedRows(worksheet))

C20_Witness ==
    /\ pc = "rows"
    /\ worksheet = ShiftingHeaderSheet
    /\ header.headerRow = 1
    /\ header.timeCol = 2
    /\ header.dayCols = <<<<1, 1>>, <<2, 2>>, <<3, 1>>>>

\* a call of parseExcelFile has ended
Ended(at) == at \in {"returned", "threw"}

\* two Sessions agree in every field but id
SameButId(a, b) == [a EXCEPT !.id = 0] = [b EXCEPT !.id = 0]

\* two outcomes are the same Error, or ImportPreviews that agree in the order
\* of the Sessions, every field of a Session but id, unparsedCells and
\* metadata
SameOutcome(a, b) ==
    /\ a.kind = b.kind
    /\ a.kind = "error" => a.message = b.message
    /\ a.kind = "preview" =>
           /\ Len(a.sessions) = Len(b.sessions)
           /\ \A i \in 1..Len(a.sessions) : SameButId(a.sessions[i], b.sessions[i])
           /\ a.unparsedCells = b.unparsedCells
           /\ a.metadata = b.metadata

AloneSheetName ==
    IF \E i \in 1..Len(workbook) : SheetReturns(workbook[i])
    THEN SheetName(CHOOSE i \in 1..Len(workbook) :
                       /\ SheetReturns(workbook[i])
                       /\ \A j \in 1..(i - 1) : ~SheetReturns(workbook[j]))
    ELSE SheetName(1)

\* the cells parseWorksheet hands to parseSessionCell in row r from entry e of
\* dayCols on, and in the rows from r on
RECURSIVE AloneRowCells(_, _, _, _)
AloneRowCells(sheet, st, r, e) ==
    IF e > Len(st.dayCols) THEN <<>>
    ELSE (IF Trim(CellValue(sheet, r, st.dayCols[e][2])) = <<>> THEN <<>>
          ELSE <<[row |-> r, col |-> st.dayCols[e][2],
                  day |-> DAYS[st.dayCols[e][1]],
                  content |-> Trim(CellValue(sheet, r, st.dayCols[e][2])),
                  time |-> normalizeTime(CellValue(sheet, r, st.timeCol))]>>)
         \o AloneRowCells(sheet, st, r, e + 1)

RECURSIVE AloneCells(_, _, _)
AloneCells(sheet, st, r) ==
    IF r > DecodeRange(sheet).er THEN <<>>
    ELSE (IF \/ CellValue(sheet, r, st.timeCol) = <<>>
             \/ normalizeTime(CellValue(sheet, r, st.timeCol)) = Null
          THEN <<>>
          ELSE AloneRowCells(sheet, st, r, 1))
         \o AloneCells(sheet, st, r + 1)

\* the cell of a call of parseSessionCell
CellOf(v) ==
    [row |-> v.row, col |-> v.col, day |-> v.day, content |-> v.content,
     time |-> v.time]

\* the ImportPreview parseWorksheet returns for the sheet with header st when
\* sessions and unparsedCells are its arrays
AlonePreview(sheet, st) ==
    [kind |-> "preview",
     sessions |-> sessions,
     unparsedCells |-> unparsedCells,
     metadata |->
         [totalCells |-> (DecodeRange(sheet).er - st.headerRow) * Len(st.dayCols),
          parsedCells |-> (DecodeRange(sheet).er - st.headerRow) * Len(st.dayCols)
                              - Len(unparsedCells),
          confidence |->
              calculateConfidence((DecodeRange(sheet).er - st.headerRow)
                                      * Len(st.dayCols) - Len(unparsedCells),
                                  (DecodeRange(sheet).er - st.headerRow)
                                      * Len(st.dayCols))]]

\* the call that runs has ended as a call of its own on its workbook ends, with
\* the failures of uuidv4 and of the line parser that this call met
EndedAsAlone ==
    IF workbook = <<>>
    THEN \E platform \in Platforms :
             outcome = [kind |-> "error",
                        message |-> CatchMessage(platform, NoSheetMessage)]
    ELSE /\ sheetName = AloneSheetName
         /\ header = ScanHeader(worksheet)
         /\ IF header.timeCol = -1
            THEN \E platform \in Platforms :
                     outcome = [kind |-> "error",
                                message |-> CatchMessage(platform, StructureMessage)]
            ELSE /\ Len(visits) = Len(AloneCells(worksheet, header,
                                                  header.headerRow + 1))
                 /\ \A i \in 1..Len(visits) :
                        CellOf(visits[i]) =
                            AloneCells(worksheet, header, header.headerRow + 1)[i]
                 /\ SessionsAre(1, 1)
                 /\ UnparsedAreThrown
                 /\ outcome = AlonePreview(worksheet, header)

\* C17: of two calls on different workbooks that overlap in time, each ends
\* with the Error or the ImportPreview it ends with when it runs alone,
\* whatever the order of their steps.
C17_ConcurrentParses ==
    (suspended # NoCall /\ workbook # suspended.workbook /\ Ended(pc)) =>
        EndedAsAlone

C17_Witness ==
    /\ suspended # NoCall
    /\ workbook # suspended.workbook
    /\ pc = "returned" /\ suspended.pc = "returned"
    /\ \E i, j \in 1..Len(outcome.sessions), k \in 1..Len(suspended.outcome.sessions) :
           /\ outcome.sessions[i].id < suspended.outcome.sessions[k].id
           /\ suspended.outcome.sessions[k].id < outcome.sessions[j].id

\* the four counters of a subject
Counters(subject) ==
    <<subject.attended_classes, subject.missed_classes, subject.total_classes,
      subject.percentage>>

\* the subject names of the sessions of the preview
PreviewNames ==
    {preview.sessions[i].subject_name : i \in 1..Len(preview.sessions)}

\* the subjects the merge has read from storage
ExistingSubjects ==
    IF importCall.existingData = NoData THEN <<>>
    ELSE importCall.existingData.subjects

\* in the saved data the subject of name has the counters it had in the
\* existing subjects, or the counters 0 when it is new
MergedAsSaid(name) ==
    /\ name \in DOMAIN stored.subjects
    /\ Counters(stored.subjects[name])
           = IF name \in DOMAIN ExistingSubjects
             THEN Counters(ExistingSubjects[name])
             ELSE <<0, 0, 0, 0>>

\* C18: after performImport with merge = true, every subject named by a
\* session of the preview is in the saved data, with its existing
\* attended_classes, missed_classes, total_classes and percentage when its
\* name is among the existing subjects and with all counters 0 when it is new.
C18_MergeKeepsCounters ==
    (importCall.pc = "saved" /\ importCall.merge)
        => \A name \in PreviewNames : MergedAsSaid(name)

\* the same for the names that no object inherits a property of
C18_OwnNamesMerged ==
    (importCall.pc = "saved" /\ importCall.merge)
        => \A name \in PreviewNames \ ObjectPrototypeKeys : MergedAsSaid(name)

\* a merge is saved whose preview names a subject with counted attendance
\* and a new subject called constructor, which the saved data do not have
C18_Witness ==
    /\ importCall.pc = "saved"
    /\ importCall.merge
    /\ \E name \in PreviewNames \cap DOMAIN ExistingSubjects :
          /\ ExistingSubjects[name].total_classes > 0
          /\ MergedAsSaid(name)
    /\ TxtConstructor \in PreviewNames \ DOMAIN ExistingSubjects
    /\ TxtConstructor \notin DOMAIN stored.subjects

\* the sheet without the cells outside rows x cols
Within(sheet, rows, cols) ==
    [ref |-> sheet.ref,
     cells |-> [p \in {q \in DOMAIN sheet.cells : q[1] \in rows /\ q[2] \in cols}
                   |-> sheet.cells[p]]]

\* parseWorksheet has scanned the header of the worksheet
Scanned == pc \in {"rows", "returned", "catch", "threw"} /\ sheetName # Undefined

\* C21 as stated: headerRow, timeCol and the weekday columns are those the
\* scan finds on the sheet without the cells outside its first 11 rows and
\* first 11 columns, so no cell outside that window influences them.
C21_HeaderFromWindow ==
    Scanned => header = ScanHeader(Within(worksheet, WindowRows(worksheet),
                                          WindowCols(worksheet)))

\* C21: headerRow, timeCol and the weekday columns are those the scan finds
\* on the sheet without the cells below its first 11 rows, in whatever
\* column: no cell below the 11th row influences them.
C21_HeaderFromFirstRows ==
    Scanned => header = ScanHeader(Within(worksheet, WindowRows(worksheet),
                                          ScanColumns(worksheet)))

\* a sheet is scanned that holds Time and weekdays in its 12th row only
C21_Witness ==
    /\ Scanned
    /\ \E p \in DOMAIN worksheet.cells :
          /\ p[1] \notin WindowRows(worksheet)
          /\ HoldsTime(worksheet, p[1], p[2])
    /\ header.headerRow = -1

\* a sheet is scanned whose only cell that says time is in its 12th column
C21_FarColumnRead ==
    /\ Scanned
    /\ header.timeCol \notin WindowCols(worksheet)
    /\ header.timeCol # -1

\* the data rows of the worksheet
DataRows == (header.headerRow + 1)..DecodeRange(worksheet).er

\* the time cell of data row r is empty or is no time
UnusableTime(r) ==
    \/ CellValue(worksheet, r, header.timeCol) = <<>>
    \/ normalizeTime(CellValue(worksheet, r, header.timeCol)) = Null

\* the rows of the calls of parseSessionCell so far
VisitedRows == {visits[v].row : v \in 1..Len(visits)}

\* every session comes from a call of parseSessionCell on a row in rows
SessionsFromRows(rows) ==
    \A i \in 1..Len(sessions) :
        \E v \in 1..Len(visits) :
            /\ visits[v].row \in rows
            /\ ~visits[v].threw
            /\ i \in visits[v].first..(visits[v].first + visits[v].count - 1)

\* the non-blank weekday cells of row r have been handed to parseSessionCell
RowProcessed(r) ==
    \A e \in 1..Len(header.dayCols) :
        Trim(CellValue(worksheet, r, header.dayCols[e][2])) # <<>>
            => \E v \in 1..Len(visits) :
                  /\ visits[v].row = r
                  /\ visits[v].col = header.dayCols[e][2]
                  /\ visits[v].day = DAYS[header.dayCols[e][1]]

\* C22: no weekday cell of a data row whose time cell is empty or is no time
\* is handed to parseSessionCell, so the row gives no Session and no
\* UnparsedCell; and when the preview is returned every non-blank weekday
\* cell of every other data row, also of those after such a row, has been
\* parsed.
C22_UnusableRowSkipped ==
    (pc \in {"rows", "returned"}) =>
        LET usable == {r \in DataRows : ~UnusableTime(r)}
        IN /\ VisitedRows \subseteq usable
           /\ SessionsFromRows(usable)
           /\ \A u \in 1..Len(unparsedCells) : unparsedCells[u].row - 1 \in usable
           /\ pc = "returned" => \A r \in usable : RowProcessed(r)

\* a preview is returned of a sheet with a row without a time that holds a
\* session text and is followed by a row that gave a Session
C22_Witness ==
    /\ pc = "returned"
    /\ \E r \in DataRows :
          /\ UnusableTime(r)
          /\ \E e \in 1..Len(header.dayCols) :
                 Trim(CellValue(worksheet, r, header.dayCols[e][2])) # <<>>
          /\ \E v \in 1..Len(visits) : visits[v].row > r /\ visits[v].count > 0

\* C23: in a returned ImportPreview totalCells is the number of pairs of a
\* data row, skipped or not, and a mapped weekday, that is (last row -
\* headerRow) x (number of entries of dayCols); parsedCells is totalCells
\* minus the number of unparsed cells; and both the number of unparsed cells
\* and parsedCells lie between 0 and totalCells.
C23_CellCounts ==
    (pc = "returned" /\ outcome.kind = "preview") =>
        LET total == outcome.metadata.totalCells
            parsed == outcome.metadata.parsedCells
            unparsed == Len(outcome.unparsedCells)
        IN /\ total = Cardinality(DataRows \X (1..Len(header.dayCols)))
           /\ total = (DecodeRange(worksheet).er - header.headerRow)
                          * Len(header.dayCols)
           /\ parsed = total - unparsed
           /\ 0 <= unparsed /\ unparsed <= total
           /\ 0 <= parsed /\ parsed <= total

\* a preview is returned of a sheet with a skipped row and an unparsed cell
C23_Witness ==
    /\ pc = "returned"
    /\ outcome.kind = "preview"
    /\ \E r \in DataRows : UnusableTime(r)
    /\ outcome.unparsedCells # <<>>
    /\ outcome.metadata.parsedCells < outcome.metadata.totalCells

\* parseSessionLine has returned a ParsedCell
LineParsed == lineResult # NotRunLine /\ lineResult # NullLine

\* the line without the leftmost match of the groups pattern, which runs to
\* the end of the line
WithoutGroupsMatch(s) ==
    IF \E i \in 1..Len(s) : GroupsMatchAt(s, i)
    THEN Trim(SubSeq(s, 1, (CHOOSE i \in 1..Len(s) :
                               /\ GroupsMatchAt(s, i)
                               /\ \A j \in 1..(i - 1) : ~GroupsMatchAt(s, j)) - 1))
    ELSE s

\* the line without the leftmost match of the lecturer pattern, which runs
\* to the end of the line
WithoutLecturerMatch(s) ==
    IF \E i \in 1..Len(s) : LecturerMatchAt(s, i)
    THEN Trim(SubSeq(s, 1, (CHOOSE i \in 1..Len(s) :
                               /\ LecturerMatchAt(s, i)
                               /\ \A j \in 1..(i - 1) : ~LecturerMatchAt(s, j)) - 1))
    ELSE s

\* the line without the leftmost match of the room pattern
WithoutRoomMatch(s) ==
    IF RoomMatch(s) # NoMatch
    THEN Trim(SubSeq(s, 1, RoomMatch(s)[1] - 1)
                  \o SubSeq(s, RoomMatch(s)[3] + 1, Len(s)))
    ELSE s

ExampleLecturerLine ==
    <<"M", "a", "t", "h", ":", " ", "D", "r", ".", " ", "S", "m", "i", "t", "h", ":">>

\* C24: the remainder the subject is taken from is the line without the whole
\* text the groups pattern matched, then without the whole text the lecturer
\* pattern matched, then without the whole text the room pattern matched; and
\* for the line "Math: Dr. Smith:" the lecturer is not part of subject_name.
C24_MatchedTextRemoved ==
    LineParsed =>
        /\ lineResult.raw_text
               = WithoutRoomMatch(WithoutLecturerMatch(WithoutGroupsMatch(line)))
        /\ line = ExampleLecturerLine
               => ~Includes(lineResult.subject_name, lineResult.lecturer)

\* the line "Math: Dr. Smith:" is parsed: the lecturer is found and is still
\* in the subject
C24_Witness ==
    /\ LineParsed
    /\ line = ExampleLecturerLine
    /\ lineResult.lecturer = <<"D", "r", ".", " ", "S", "m", "i", "t", "h">>
    /\ Includes(lineResult.subject_name, lineResult.lecturer)

\* t is a non-empty code of the upper-case letters P, L, T, F, R
IsTypeCode(t) ==
    /\ t # <<>>
    /\ \A i \in 1..Len(t) : t[i] \in {"P", "L", "T", "F", "R"}

\* C25 as stated: session_type is empty or an upper-case code of 1 to 4
\* letters out of P, L, T, F, R.
C25_TypeOfAtMostFour ==
    LineParsed =>
        \/ lineResult.session_type = <<>>
        \/ IsTypeCode(lineResult.session_type) /\ Len(lineResult.session_type) <= 4

\* C25: session_type is empty or an upper-case code of one or more letters
\* out of P, L, T, F, R, of whatever length.
C25_TypeOfListedLetters ==
    LineParsed =>
        \/ lineResult.session_type = <<>>
        \/ IsTypeCode(lineResult.session_type)

\* a line with a parenthesized code of 5 letters is parsed and the code is
\* the session type
C25_Witness ==
    /\ LineParsed
    /\ lineResult.session_type = <<"P", "L", "T", "F", "R">>

\* what the groups, lecturer and room steps leave of the line
Remainder(l0) == lineAfterRoom(lineAfterLecturer(lineAfterGroups(l0)))

\* parseSessionLine gives null for the line exactly when the subject taken
\* from what the three steps leave is empty, which for a trimmed line, as
\* parseSessionCell passes it, is when nothing is left
NullForEmptySubject(l0) ==
    /\ parseSessionLine(l0) = NullLine <=> subjectOf(Remainder(l0)) = <<>>
    /\ parseSessionLine(l0) = NullLine <=> AllSpace(Remainder(l0))

\* C26: for every line of every parsed cell parseSessionLine returns null
\* exactly when the subject is empty after the extraction steps; every
\* Session has a non-empty subject_name; and a cell that is only the
\* parenthesized group "(G1,G2)" gives no Session.
C26_NullForEmptySubject ==
    (pc \in {"rows", "returned"}) =>
        /\ \A v \in 1..Len(visits) :
               /\ \A n \in 1..Len(CellLines(visits[v].content)) :
                      NullForEmptySubject(Trim(CellLines(visits[v].content)[n]))
               /\ visits[v].content = TxtGroupsOnly => visits[v].count = 0
        /\ \A i \in 1..Len(sessions) : sessions[i].subject_name # <<>>

\* a preview with Sessions is returned of a sheet with the cell "(G1,G2)",
\* which was parsed without an exception and gave no Session
C26_Witness ==
    /\ pc = "returned"
    /\ outcome.kind = "preview"
    /\ outcome.sessions # <<>>
    /\ \E v \in 1..Len(visits) :
          /\ visits[v].content = TxtGroupsOnly
          /\ ~visits[v].threw
          /\ visits[v].lineErrors = {}
          /\ visits[v].count = 0

ExampleTypeOnlyLine == <<"M", "a", "t", "h", " ", "(", "L", ")">>

\* C27: parseSessionLine("Math (L)") is subject "Math", type "L" and no
\* groups.
C27_TypeWithoutGroups ==
    (line = ExampleTypeOnlyLine /\ lineResult # NotRunLine) =>
        /\ lineResult # NullLine
        /\ lineResult.subject_name = <<"M", "a", "t", "h">>
        /\ lineResult.session_type = <<"L">>
        /\ lineResult.groups = <<>>

\* the line "Math (L)" is parsed: the code in parentheses is the one group
\* and there is no session type
C27_Witness ==
    /\ line = ExampleTypeOnlyLine
    /\ LineParsed
    /\ lineResult.subject_name = <<"M", "a", "t", "h">>
    /\ lineResult.session_type = <<>>
    /\ lineResult.groups = << <<"L">> >>

\* C28: a returned ImportPreview without unparsed cells and with totalCells
\* >= 1 has confidence high, however many Sessions it has, none included.
C28_HighWithoutExceptions ==
    (pc = "returned" /\ outcome.kind = "preview"
        /\ outcome.unparsedCells = <<>> /\ outcome.metadata.totalCells >= 1)
        => outcome.metadata.confidence = "high"

\* a preview without a Session and without an unparsed cell is returned of a
\* sheet with a data row, with confidence high
C28_Witness ==
    /\ pc = "returned"
    /\ outcome.kind = "preview"
    /\ outcome.sessions = <<>>
    /\ outcome.unparsedCells = <<>>
    /\ outcome.metadata.totalCells >= 1
    /\ outcome.metadata.confidence = "high"

\* calls c and d overlap: each had loaded before the other saved
Overlapped(c, d) == c \notin calls[d].before /\ d \notin calls[c].before

\* the sessions of the subject `name` that are marked `status`
MarkedSessions(data, name, status) ==
    {i \in 1..Len(data.sessions) :
        /\ data.sessions[i].subject_name = name
        /\ data.sessions[i].attendance_marked = status}

\* the counters of every subject are those of the marks of its sessions
CountersReflectMarks(data) ==
    \A name \in DOMAIN data.subjects :
        /\ data.subjects[name].attended_classes
               = Cardinality(MarkedSessions(data, name, TxtPresent))
        /\ data.subjects[name].missed_classes
               = Cardinality(MarkedSessions(data, name, TxtAbsent))

\* the session of call c in the stored data is marked as the call asked
MarkStored(c) ==
    \E i \in 1..Len(stored.sessions) :
        /\ stored.sessions[i].id = calls[c].sessionId
        /\ stored.sessions[i].attendance_marked = calls[c].status

\* C29: when the only two calls on freshly imported data are two calls of
\* markSessionAttendance for two different sessions that overlap, then after
\* both have saved the stored data hold both marks and the counters of the
\* subjects are those of the marks.
C29_NoLostMark ==
    (/\ Len(calls) = 2
     /\ \A c \in 1..2 : calls[c].op = "mark" /\ calls[c].pc = "saved"
     /\ calls[1].sessionId # calls[2].sessionId
     /\ Overlapped(1, 2))
        => /\ MarkStored(1)
           /\ MarkStored(2)
           /\ CountersReflectMarks(stored)

\* two overlapping calls have marked two sessions of one subject present;
\* the stored data hold the mark of the call that saved last only, and the
\* subject counts one class
C29_Witness ==
    /\ Len(calls) = 2
    /\ \A c \in 1..2 :
          calls[c].op = "mark" /\ calls[c].pc = "saved" /\ calls[c].status = TxtPresent
    /\ calls[1].sessionId # calls[2].sessionId
    /\ Overlapped(1, 2)
    /\ \E c \in 1..2 : ~MarkStored(c)
    /\ \E name \in DOMAIN stored.subjects :
          stored.subjects[name].attended_classes = 1

\* two calls of markSessionAttendance for two sessions, one after the other,
\* leave both marks and the counters of both
C29_SequentialMarksKept ==
    (/\ Len(calls) = 2
     /\ \A c \in 1..2 : calls[c].op = "mark" /\ calls[c].pc = "saved"
     /\ calls[1].sessionId # calls[2].sessionId
     /\ ~Overlapped(1, 2))
        => /\ MarkStored(1)
           /\ MarkStored(2)
           /\ CountersReflectMarks(stored)

\* C30: every stored subject has attended_classes >= 0 and missed_classes >= 0.
C30_CountersNotNegative ==
    stored # NoData =>
        \A name \in DOMAIN stored.subjects :
            /\ stored.subjects[name].attended_classes >= 0
            /\ stored.subjects[name].missed_classes >= 0

\* a session was marked present, updateAttendance then set the counters of
\* its subject to 0, and taking the mark back has made attended_classes -1
C30_Witness ==
    /\ Len(calls) = 3
    /\ \A c \in 1..3 : calls[c].pc = "saved" /\ (c > 1 => c - 1 \in calls[c].before)
    /\ calls[1].op = "mark" /\ calls[1].status = TxtPresent
    /\ calls[2].op = "update" /\ calls[2].attended = 0 /\ calls[2].missed = 0
    /\ calls[3].op = "mark" /\ calls[3].status = Null
    /\ calls[3].sessionId = calls[1].sessionId
    /\ \E name \in DOMAIN stored.subjects :
          stored.subjects[name].attended_classes = -1

====
